---- MODULE Spec2Model ----
(***************************************************************************)
(* A model of the apiary gateway: the in-memory rate limiter, the API key *)
(* manager, the middleware pipeline with the dynamic route engine, and    *)
(* the endpoint configuration loader.                                      *)
(***************************************************************************)
EXTENDS Integers, Sequences, FiniteSets, TLC

VARIABLES
    now,            \* time.time(), in ticks
    requests,       \* RateLimiter._requests
    last_cleanup,   \* RateLimiter._last_cleanup
    rl_log,         \* the check_rate_limit calls made so far, with their results
    fs,             \* the key files on disk
    keys_cache,     \* APIKeyManager._keys_cache
    file_watchers,  \* APIKeyManager._file_watchers
    events,         \* modification events the observers have not delivered yet
    kret,           \* the last key-manager operation and what it returned
    settings,       \* config.Settings
    req,            \* the request being served
    pc,             \* where the request is: idle, down, up, done
    depth,          \* the middleware whose dispatch is running, 1 the outermost
    result,         \* what the inner chain gave: a response or an exception
    trace,          \* what has run for this request, in order
    rstate,         \* request.state.request_id
    locals,         \* the local variables the dispatch frames keep across call_next
    metrics,        \* MetricsCollector counters
    served,         \* how many requests have been started
    document,       \* config/endpoints.json
    registered_endpoints,   \* DynamicRouter.registered_endpoints
    load_state,     \* new, ok (configuration loaded), failed (load raised)
    lock,           \* APIKeyManager._lock: the thread that holds it, or "free"
    thr,            \* the threads inside the key manager: where each is, its locals
    startup,        \* the process: how far its start has come, what it is configured with
    service_registry, \* core.services._service_registry: <<key, class>> in insertion order
    reg_log,        \* the register_service calls made so far
    call,           \* the last call of a function under study: its arguments and result
    dep_client,     \* http_client_dependency._client: a handle, or 0 for None
    handles,        \* the httpx.AsyncClient objects created so far
    svc_log         \* the service instances run so far and the handle each was given

rlVars == <<now, requests, last_cleanup, rl_log>>
keyVars == <<fs, keys_cache, file_watchers, events, kret>>
pipeVars == <<settings, req, pc, depth, result, trace, rstate, locals, metrics, served>>
loadVars == <<document, registered_endpoints, load_state>>
concVars == <<lock, thr>>
startVars == <<startup>>
svcVars == <<service_registry, reg_log, call>>
httpVars == <<dep_client, handles, svc_log>>
vars ==
    <<now, requests, last_cleanup, rl_log, fs, keys_cache, file_watchers, events, kret,
      settings, req, pc, depth, result, trace, rstate, locals, metrics, served,
      document, registered_endpoints, load_state, lock, thr, startup,
      service_registry, reg_log, call, dep_client, handles, svc_log>>

(***************************************************************************)
(* Generic helpers                                                         *)
(***************************************************************************)
Max(a, b) == IF a >= b THEN a ELSE b

RECURSIVE SelectGT(_, _)
\* [ts for ts in s if ts > cutoff], order kept
SelectGT(s, cutoff) ==
    IF s = <<>> THEN <<>>
    ELSE IF Head(s) > cutoff THEN <<Head(s)>> \o SelectGT(Tail(s), cutoff)
         ELSE SelectGT(Tail(s), cutoff)

\* d[k] = v on a dict
DictSet(d, k, v) == [x \in (DOMAIN d) \cup {k} |-> IF x = k THEN v ELSE d[x]]

(***************************************************************************)
(* Strings.  A Python str is modelled as a sequence of one-character      *)
(* strings, so that strip(), split() and the suffix tests are computed.   *)
(***************************************************************************)
RECURSIVE LStrip(_)
LStrip(s) == IF s # <<>> /\ Head(s) = " " THEN LStrip(Tail(s)) ELSE s

RECURSIVE RStrip(_)
RStrip(s) ==
    IF s # <<>> /\ s[Len(s)] = " " THEN RStrip(SubSeq(s, 1, Len(s) - 1)) ELSE s

\* str.strip()
Strip(s) == RStrip(LStrip(s))

RECURSIVE SplitAcc(_, _, _)
SplitAcc(s, sep, cur) ==
    IF s = <<>> THEN <<cur>>
    ELSE IF Head(s) = sep THEN <<cur>> \o SplitAcc(Tail(s), sep, <<>>)
         ELSE SplitAcc(Tail(s), sep, Append(cur, Head(s)))

\* str.split(sep) for a one-character separator
Split(s, sep) == SplitAcc(s, sep, <<>>)

\* str.endswith(suffix)
EndsWith(s, suffix) ==
    /\ Len(s) >= Len(suffix)
    /\ SubSeq(s, Len(s) - Len(suffix) + 1, Len(s)) = suffix

\* str.startswith(prefix)
StartsWith(s, prefix) ==
    /\ Len(s) >= Len(prefix)
    /\ SubSeq(s, 1, Len(prefix)) = prefix

\* c in s
Contains(s, c) == \E i \in 1..Len(s) : s[i] = c

RECURSIVE JoinWith(_, _)
\* sep.join(parts)
JoinWith(parts, sep) ==
    IF parts = <<>> THEN <<>>
    ELSE IF Len(parts) = 1 THEN parts[1]
         ELSE parts[1] \o <<sep>> \o JoinWith(Tail(parts), sep)

RECURSIVE NonEmpty(_)
NonEmpty(parts) ==
    IF parts = <<>> THEN <<>>
    ELSE IF Head(parts) = <<>> THEN NonEmpty(Tail(parts))
         ELSE <<Head(parts)>> \o NonEmpty(Tail(parts))

(***************************************************************************)
(* The file system as the key manager sees it.  The process runs in the    *)
(* directory /w; /w/d is a directory; /w/d/k and /w/a may be key files.    *)
(***************************************************************************)
CwdParts == << <<"w">> >>
Dirs == { <<>>, << <<"w">> >>, << <<"w">>, <<"d">> >> }
FileK == << <<"w">>, <<"d">>, <<"k">> >>
FileA == << <<"w">>, <<"a">> >>
Files == {FileK, FileA}

\* The texts a key file may hold, line by line.
FileTexts ==
    { <<>>,
      << <<"a">> >>,
      << <<"#", "c">>, <<" ", "b", " ">>, <<>>, <<"c">> >> }

NoFile == [exists |-> FALSE, readable |-> FALSE, text |-> <<>>]
FileStates ==
    {NoFile} \cup [exists : {TRUE}, readable : BOOLEAN, text : FileTexts]

\* pathlib.Path(s): the components, and whether the path is absolute
PathParts(s) == NonEmpty(Split(s, "/"))
IsAbsolute(s) == s # <<>> /\ Head(s) = "/"

\* str(Path(s)): repeated and trailing separators are dropped (two leading
\* separators, and only two, are kept)
PathStr(s) ==
    LET root == IF StartsWith(s, <<"/", "/">>) /\ ~StartsWith(s, <<"/", "/", "/">>)
                THEN <<"/", "/">>
                ELSE IF IsAbsolute(s) THEN <<"/">> ELSE <<>>
        body == JoinWith(PathParts(s), "/")
    IN  IF root = <<>> /\ body = <<>> THEN <<".">> ELSE root \o body

\* the file or directory a path names, from the working directory
Resolve(s) == IF IsAbsolute(s) THEN PathParts(s) ELSE CwdParts \o PathParts(s)

\* Path.exists(), Path.is_file()
PathExists(files, s) ==
    \/ Resolve(s) \in Dirs
    \/ Resolve(s) \in Files /\ files[Resolve(s)].exists
PathIsFile(files, s) == Resolve(s) \in Files /\ files[Resolve(s)].exists

\* open(path) succeeds
CanOpen(files, s) == PathIsFile(files, s) /\ files[Resolve(s)].readable

(***************************************************************************)
(* API key sources (core/api_key_validator.py, core/api_key_manager.py)    *)
(***************************************************************************)
TxtSuffix == <<".", "t", "x", "t">>
KeysSuffix == <<".", "k", "e", "y", "s">>

\* looks_like_path in validate_api_key_source
LooksLikePath(s) ==
    Contains(s, "/") \/ EndsWith(s, TxtSuffix) \/ EndsWith(s, KeysSuffix)

\* {key.strip() for key in keys_string.split(",") if key.strip()}
ParseKeyStringNoStrip(keys_string) ==
    {Split(keys_string, ",")[i] : i \in 1..Len(Split(keys_string, ","))} \ {<<>>}
ParseKeyString(keys_string) ==
    {Strip(Split(keys_string, ",")[i]) : i \in 1..Len(Split(keys_string, ","))} \ {<<>>}

\* the keys of a file's text: stripped lines, blank and '#' lines skipped
ParseLines(text) ==
    {l \in {Strip(text[i]) : i \in 1..Len(text)} : l # <<>> /\ Head(l) # "#"}

\* validate_api_key_source: [valid, type, path]
ValidateApiKeySourceLiteral(files, source) ==
    IF source = <<>> \/ Strip(source) = <<>>
    THEN [valid |-> FALSE, type |-> "string", path |-> <<>>]
    ELSE LET s == Strip(source)
         IN  IF PathExists(files, s)
             THEN IF PathIsFile(files, s)
                  THEN [valid |-> CanOpen(files, s), type |-> "file", path |-> PathStr(s)]
                  ELSE [valid |-> FALSE, type |-> "string", path |-> <<>>]
             ELSE [valid |-> ParseKeyString(s) # {}, type |-> "string", path |-> <<>>]
ValidateApiKeySource(files, source) ==
    IF source = <<>> \/ Strip(source) = <<>>
    THEN [valid |-> FALSE, type |-> "string", path |-> <<>>]
    ELSE LET s == Strip(source)
         IN  IF PathExists(files, s)
             THEN IF PathIsFile(files, s)
                  THEN [valid |-> CanOpen(files, s), type |-> "file", path |-> PathStr(s)]
                  ELSE [valid |-> FALSE, type |-> "string", path |-> <<>>]
             ELSE IF LooksLikePath(s)
                  THEN [valid |-> FALSE, type |-> "string", path |-> <<>>]
                  ELSE [valid |-> ParseKeyString(s) # {}, type |-> "string", path |-> <<>>]

\* APIKeyManager._read_keys_from_file: a failure to open is logged and the
\* keys collected so far, none, are returned
ReadKeysFromFile(files, path) ==
    IF CanOpen(files, path) THEN ParseLines(files[Resolve(path)].text) ELSE {}

\* APIKeyManager._load_from_file under the lock: watch, read, cache.
\* watch_ok: Observer.start() succeeded (a failure is logged and swallowed)
LoadFromFile(files, cache, watchers, path, watch_ok) ==
    [cache |-> DictSet(cache, path, ReadKeysFromFile(files, path)),
     watchers |-> IF path \notin DOMAIN watchers /\ watch_ok
                  THEN DictSet(watchers, path, "started")
                  ELSE watchers,
     raised |-> FALSE,
     keys |-> ReadKeysFromFile(files, path)]

\* APIKeyManager.load_keys once validate_api_key_source gave validation
LoadKeysValidated(files, cache, watchers, source, watch_ok, validation) ==
    IF ~validation.valid
    THEN [cache |-> cache, watchers |-> watchers, raised |-> TRUE, keys |-> {}]
    ELSE IF validation.type = "file"
         THEN LoadFromFile(files, cache, watchers, validation.path, watch_ok)
         ELSE [cache |-> cache, watchers |-> watchers, raised |-> FALSE,
               keys |-> ParseKeyString(source)]

\* APIKeyManager.load_keys: the returned key set (or ValueError raised) and the
\* cache and watcher table it leaves
LoadKeys(files, cache, watchers, source, watch_ok) ==
    IF source = <<>> \/ Strip(source) = <<>>
    THEN [cache |-> cache, watchers |-> watchers, raised |-> FALSE, keys |-> {}]
    ELSE LoadKeysValidated(files, cache, watchers, source, watch_ok,
                           ValidateApiKeySource(files, source))

RECURSIVE ValidateKey(_, _, _, _, _, _)
RECURSIVE ValidateKeyLoaded(_, _, _, _, _)
\* APIKeyManager.validate_key, the body of its loop once load_keys gave l
ValidateKeyLoaded(files, l, api_key, sources, watch_ok) ==
    IF l.raised
    THEN [cache |-> l.cache, watchers |-> l.watchers, raised |-> TRUE, ok |-> FALSE]
    ELSE IF api_key \in l.keys
         THEN [cache |-> l.cache, watchers |-> l.watchers, raised |-> FALSE, ok |-> TRUE]
         ELSE ValidateKey(files, l.cache, l.watchers, api_key, Tail(sources), watch_ok)

\* APIKeyManager.validate_key over the sources, in order
ValidateKey(files, cache, watchers, api_key, sources, watch_ok) ==
    IF api_key = <<>> \/ sources = <<>>
    THEN [cache |-> cache, watchers |-> watchers, raised |-> FALSE, ok |-> FALSE]
    ELSE IF Head(sources) = <<>>
         THEN ValidateKey(files, cache, watchers, api_key, Tail(sources), watch_ok)
         ELSE ValidateKeyLoaded(files,
                                LoadKeys(files, cache, watchers, Head(sources), watch_ok),
                                api_key, sources, watch_ok)

\* core.auth.authentication.validate_api_key; endpoint_keys is <<>> for None
ValidateApiKey(files, cache, watchers, api_key, api_keys, endpoint_keys, watch_ok) ==
    IF endpoint_keys # <<>>
    THEN ValidateKey(files, cache, watchers, api_key, <<endpoint_keys>>, watch_ok)
    ELSE IF api_keys = <<>>
         THEN [cache |-> cache, watchers |-> watchers, raised |-> FALSE, ok |-> FALSE]
         ELSE ValidateKey(files, cache, watchers, api_key, <<api_keys>>, watch_ok)

\* APIKeyManager.reload_file under the lock: the cache it leaves
ReloadFileKeep(files, cache, path) == cache
ReloadFile(files, cache, path) ==
    IF path \in DOMAIN cache
    THEN DictSet(cache, path, ReadKeysFromFile(files, path))
    ELSE cache

NoReq == [method |-> "none"]
NoRl == [checked |-> FALSE, allowed |-> TRUE, limit |-> 0, remaining |-> 0, reset |-> 0]
NoLocals == [log_request_id |-> "none", request_id |-> "none", rl |-> NoRl]
\* EndpointMetrics(): the counters of an endpoint not seen before
EndpointMetrics ==
    [count |-> 0, total_time |-> 0, error_count |-> 0, last_request_time |-> 0,
     status_codes |-> <<>>]
\* MetricsCollector(): no endpoint, the totals at zero
NoMetrics == [endpoints |-> <<>>, start_time |-> 0, total_requests |-> 0, total_errors |-> 0]

\* the threads that may be inside the key manager at once: a request thread
\* in load_keys, the observer thread in reload_file, a caller of
\* get_cached_keys and the thread that runs shutdown
Threads == {"load", "reload", "get", "shutdown"}
NoRet == [has |-> FALSE, keys |-> {}]
ThreadIdle == [pc |-> "idle", lines |-> <<>>, keys |-> {}, ret |-> NoRet]

\* no thread is inside the key manager
\* the registry is empty and nothing was called
NoCall == [op |-> "none"]
SvcIdle ==
    /\ service_registry = <<>>
    /\ reg_log = <<>>
    /\ call = NoCall

\* no transport handle has been created
HttpIdle ==
    /\ dep_client = 0
    /\ handles = <<>>
    /\ svc_log = <<>>

\* no process is being started
NoStartup == [state |-> "none"]
StartIdle == startup = NoStartup

ConcIdle ==
    /\ lock = "free"
    /\ thr = [t \in Threads |-> ThreadIdle]

\* the endpoint configuration has not been loaded
LoadIdle ==
    /\ document = [exists |-> FALSE, endpoints |-> <<>>]
    /\ registered_endpoints = <<>>
    /\ load_state = "new"

\* no request is being served
PipeIdle ==
    /\ settings = [api_keys |-> <<>>, rate_limit_enabled |-> TRUE]
    /\ req = NoReq
    /\ pc = "idle"
    /\ depth = 0
    /\ result = [kind |-> "none"]
    /\ trace = <<>>
    /\ rstate = "unset"
    /\ locals = NoLocals
    /\ metrics = NoMetrics
    /\ served = 0

KeysIdle ==
    /\ fs = [f \in Files |-> NoFile]
    /\ keys_cache = <<>>
    /\ file_watchers = <<>>
    /\ events = {}
    /\ kret = [op |-> "none"]

(***************************************************************************)
(* Rate limiter (core/rate_limiter.py)                                     *)
(*                                                                         *)
(* time.time() is a float number of seconds; the model measures time in    *)
(* ticks of 1/TicksPerSec seconds so that int() truncation is visible.     *)
(***************************************************************************)
TicksPerSec == 2
MaxCalls == 3
MaxLimit == 2

cleanup_interval == 60
CleanupCutoffSeconds == 60
DefaultWindowSeconds == 60

Idents == {"ip:1", "api_key:k"}
Limits == 0..MaxLimit
\* a window longer than the default one
LongWindowSeconds == 120
Windows == {DefaultWindowSeconds, LongWindowSeconds}

\* The instants at which the clock is read, in ticks.
TimePoints ==
    {0, 1, 30 * TicksPerSec, 60 * TicksPerSec, 60 * TicksPerSec + 1,
     121 * TicksPerSec}

\* int(x) of a time given in ticks: whole seconds, truncated
IntSeconds(ticks) == ticks \div TicksPerSec

\* self._requests[identifier] on a defaultdict(list)
Bucket(reqs, identifier) ==
    IF identifier \in DOMAIN reqs THEN reqs[identifier] ELSE <<>>

\* RateLimiter._cleanup_old_entries: the pair <<_requests, _last_cleanup>> after it
CleanupOldEntries(reqs, lc, t) ==
    IF t - lc < cleanup_interval * TicksPerSec
    THEN <<reqs, lc>>
    ELSE LET cutoff == t - CleanupCutoffSeconds * TicksPerSec
             kept == {k \in DOMAIN reqs : SelectGT(reqs[k], cutoff) # <<>>}
         IN  <<[k \in kept |-> SelectGT(reqs[k], cutoff)], t>>

\* the comparison that decides a denial: len(requests) >= limit
LimitReachedOff(n, limit) == n > limit
LimitReached(n, limit) == n >= limit

\* RateLimiter.check_rate_limit: the outcome and the state it leaves
CheckRateLimitResult(reqs, lc, t, identifier, limit, window) ==
    LET cl == CleanupOldEntries(reqs, lc, t)
        cutoff == t - window * TicksPerSec
        pruned == SelectGT(Bucket(cl[1], identifier), cutoff)
        base == [id |-> identifier, limit |-> limit, window |-> window, t |-> t,
                 prior |-> Len(pruned)]
    IN  IF LimitReached(Len(pruned), limit)
        THEN IF pruned = <<>>
             THEN \* requests[0] on an empty list: IndexError
                  [reqs |-> DictSet(cl[1], identifier, pruned), lc |-> cl[2],
                   ret |-> base @@ [outcome |-> "raised", remaining |-> 0, reset |-> 0]]
             ELSE [reqs |-> DictSet(cl[1], identifier, pruned), lc |-> cl[2],
                   ret |-> base @@ [outcome |-> "denied", remaining |-> 0,
                                    reset |-> IntSeconds(pruned[1] + window * TicksPerSec)]]
        ELSE LET appended == Append(pruned, t)
             IN  [reqs |-> DictSet(cl[1], identifier, appended), lc |-> cl[2],
                  ret |-> base @@ [outcome |-> "allowed",
                                   remaining |-> Max(0, limit - Len(appended)),
                                   reset |-> IntSeconds(t + window * TicksPerSec)]]

RLIdle ==
    /\ now = 0
    /\ requests = <<>>
    /\ last_cleanup = 0
    /\ rl_log = <<>>

InitRL ==
    /\ RLIdle
    /\ KeysIdle
    /\ PipeIdle
    /\ LoadIdle
    /\ ConcIdle
    /\ SvcIdle
    /\ HttpIdle
    /\ StartIdle

\* the clock moves on between calls
Advance ==
    \E t \in TimePoints :
        /\ t > now
        /\ now' = t
        /\ UNCHANGED <<requests, last_cleanup, rl_log>>
        /\ UNCHANGED <<keyVars, pipeVars, loadVars, concVars, startVars, svcVars, httpVars>>

CheckRateLimit ==
    \E identifier \in Idents, limit \in Limits, window \in Windows :
        /\ Len(rl_log) < MaxCalls
        /\ LET r == CheckRateLimitResult(requests, last_cleanup, now, identifier, limit, window)
           IN  /\ requests' = r.reqs
               /\ last_cleanup' = r.lc
               /\ rl_log' = Append(rl_log, r.ret)
        /\ UNCHANGED now
        /\ UNCHANGED <<keyVars, pipeVars, loadVars, concVars, startVars, svcVars, httpVars>>

NextRL == Advance \/ CheckRateLimit

SpecRL == InitRL /\ [][NextRL]_vars

(***************************************************************************)
(* C1: rate limiter sequence.  Starting from a call that finds no retained *)
(* timestamp for its identifier, as long as the following calls for that   *)
(* identifier use the same limit L >= 1 and the default window and fall    *)
(* less than one window after that first call, the first L are allowed     *)
(* with remaining L-1, ..., 0 and every later one is denied with remaining *)
(* 0 and a reset time strictly after the time of the first call.           *)
(***************************************************************************)
CallsOf(identifier, from, to) ==
    {j \in from..to : rl_log[j].id = identifier}

\* k continues the run of calls that call j started
InRun(j, k) ==
    /\ j <= k
    /\ rl_log[j].id = rl_log[k].id
    /\ rl_log[j].prior = 0
    /\ rl_log[k].limit >= 1
    /\ rl_log[k].t - rl_log[j].t < rl_log[k].window * TicksPerSec
    /\ \A m \in CallsOf(rl_log[k].id, j, k) :
           /\ rl_log[m].limit = rl_log[k].limit
           /\ rl_log[m].window = DefaultWindowSeconds

C1_Sequence ==
    \A j \in 1..Len(rl_log), k \in 1..Len(rl_log) :
        InRun(j, k) =>
            LET c == rl_log[k]
                n == Cardinality(CallsOf(c.id, j, k - 1))
            IN  IF n < c.limit
                THEN c.outcome = "allowed" /\ c.remaining = c.limit - 1 - n
                ELSE /\ c.outcome = "denied"
                     /\ c.remaining = 0
                     /\ c.reset * TicksPerSec > rl_log[j].t

C1_Witness ==
    \E j \in 1..Len(rl_log), k \in 1..Len(rl_log) :
        /\ InRun(j, k)
        /\ rl_log[k].limit = MaxLimit
        /\ Cardinality(CallsOf(rl_log[k].id, j, k - 1)) = MaxLimit
        /\ rl_log[k].outcome = "denied"
        /\ rl_log[k].t > rl_log[j].t
(***************************************************************************)
(* Key validation as a function of the source strings and the files on     *)
(* disk: load_keys, validate_key and validate_api_key applied to inputs     *)
(* drawn from bounded sets.                                                *)
(***************************************************************************)
MaxKeys == 2

\* credential strings: no comma, no surrounding whitespace
Creds ==
    { <<"a">>, <<"b">>, <<"d">>, <<"a", "/", "c">>, <<"b", ".", "t", "x", "t">> }

\* the keys a caller may present
ProbeKeys == Creds \cup { <<>>, <<"c">>, <<" ", "a">> }

Pads == { <<>>, <<" ">> }

RECURSIVE PadAll(_, _, _)
PadAll(items, lpad, rpad) ==
    IF items = <<>> THEN <<>>
    ELSE <<lpad \o Head(items) \o rpad>> \o PadAll(Tail(items), lpad, rpad)

\* the inline source that lists the items, each wrapped in the given whitespace
JoinPadded(items, lpad, rpad) == JoinWith(PadAll(items, lpad, rpad), ",")

CredLists == UNION {[1..n -> Creds] : n \in 0..MaxKeys}

\* source strings of every class
SrcFileRel == <<"d", "/", "k">>
SrcFileRel2 == <<" ", "d", "/", "/", "k">>
SrcFileAbs == <<"/", "w", "/", "d", "/", "k">>
SrcDir == <<"d">>
SrcBare == <<"a">>
SrcInline == <<"a", ",", "c">>
SrcNoKeys == <<",">>
SrcBlank == <<" ">>
SrcTxt == <<"b", ".", "t", "x", "t">>

Sources ==
    {SrcFileRel, SrcFileRel2, SrcFileAbs, SrcDir, SrcBare, SrcInline, SrcNoKeys,
     SrcBlank, SrcTxt, <<>>}

SourceLists == UNION {[1..n -> Sources] : n \in 1..2}

\* the files on disk when the keys are validated
AuthFileStates ==
    {NoFile,
     [exists |-> TRUE, readable |-> TRUE, text |-> << <<"a">> >>],
     [exists |-> TRUE, readable |-> TRUE,
      text |-> << <<"#", "c">>, <<" ", "b", " ">>, <<>>, <<"c">> >>],
     [exists |-> TRUE, readable |-> FALSE, text |-> << <<"a">> >>]}

InitAuth ==
    /\ RLIdle
    /\ PipeIdle
    /\ LoadIdle
    /\ ConcIdle
    /\ SvcIdle
    /\ HttpIdle
    /\ StartIdle
    /\ fs \in [Files -> AuthFileStates]
    /\ keys_cache = <<>>
    /\ file_watchers = <<>>
    /\ events = {}
    /\ kret = [op |-> "none"]

AuthLoadKeys ==
    \E source \in Sources, watch_ok \in BOOLEAN :
        /\ kret.op = "none"
        /\ LET r == LoadKeys(fs, keys_cache, file_watchers, source, watch_ok)
           IN  /\ keys_cache' = r.cache
               /\ file_watchers' = r.watchers
               /\ kret' = [op |-> "load_keys", source |-> source,
                           raised |-> r.raised, keys |-> r.keys,
                           validation |-> ValidateApiKeySource(fs, source)]
               /\ UNCHANGED <<fs, events>>
               /\ UNCHANGED <<rlVars, pipeVars, loadVars, concVars, startVars, svcVars, httpVars>>

AuthValidateKey ==
    \E api_key \in ProbeKeys, sources \in SourceLists :
        /\ kret.op = "none"
        /\ LET r == ValidateKey(fs, keys_cache, file_watchers, api_key, sources, TRUE)
           IN  /\ keys_cache' = r.cache
               /\ file_watchers' = r.watchers
               /\ kret' = [op |-> "validate_key", api_key |-> api_key,
                           sources |-> sources, raised |-> r.raised, ok |-> r.ok]
               /\ UNCHANGED <<fs, events>>
               /\ UNCHANGED <<rlVars, pipeVars, loadVars, concVars, startVars, svcVars, httpVars>>

\* validate_api_key(k, Settings(api_keys=<the joined list>))
AuthValidateApiKey ==
    \E api_key \in ProbeKeys, items \in CredLists, lpad \in Pads, rpad \in Pads :
        /\ kret.op = "none"
        /\ LET r == ValidateApiKey(fs, keys_cache, file_watchers, api_key,
                                   JoinPadded(items, lpad, rpad), <<>>, TRUE)
           IN  /\ keys_cache' = r.cache
               /\ file_watchers' = r.watchers
               /\ kret' = [op |-> "validate_api_key", api_key |-> api_key,
                           items |-> items, api_keys |-> JoinPadded(items, lpad, rpad),
                           raised |-> r.raised, ok |-> r.ok]
               /\ UNCHANGED <<fs, events>>
               /\ UNCHANGED <<rlVars, pipeVars, loadVars, concVars, startVars, svcVars, httpVars>>

NextAuth == AuthLoadKeys \/ AuthValidateKey \/ AuthValidateApiKey

SpecAuth == InitAuth /\ [][NextAuth]_vars

\* the key set a source stands for: the listed keys of an inline source, the
\* keys in the file of a file source, nothing for a source that is blank or
\* cannot be used
SourceKeySet(files, source) ==
    IF Strip(source) = <<>> THEN {}
    ELSE IF PathIsFile(files, Strip(source))
         THEN IF CanOpen(files, Strip(source))
              THEN ParseLines(files[Resolve(Strip(source))].text)
              ELSE {}
         ELSE IF PathExists(files, Strip(source)) \/ LooksLikePath(Strip(source))
              THEN {}
              ELSE ParseKeyString(source)

\* every call made for the identifier so far had the same limit and window
FixedArguments(identifier) ==
    \A i \in 1..Len(rl_log), j \in 1..Len(rl_log) :
        (rl_log[i].id = identifier /\ rl_log[j].id = identifier) =>
            (rl_log[i].limit = rl_log[j].limit /\ rl_log[i].window = rl_log[j].window)

\* the calls up to k allowed for the identifier of call k within the window
\* that ends at call k
AllowedInWindow(k) ==
    {j \in 1..k : /\ rl_log[j].id = rl_log[k].id
                  /\ rl_log[j].outcome = "allowed"
                  /\ rl_log[j].t > rl_log[k].t - rl_log[k].window * TicksPerSec}

(***************************************************************************)
(* C28: for an identifier whose calls all use one limit L >= 1 and one     *)
(* window W, at most L allowed calls fall in any interval of length W,     *)
(* whether or not the periodic cleanup ran in between.                     *)
(***************************************************************************)
C28_SlidingWindowBound ==
    \A k \in 1..Len(rl_log) :
        (/\ rl_log[k].outcome = "allowed"
         /\ rl_log[k].limit >= 1
         /\ FixedArguments(rl_log[k].id)) =>
            Cardinality(AllowedInWindow(k)) <= rl_log[k].limit

\* the timestamps of the identifier that a check at time t with the given
\* window still counts: those newer than t - window
Unexpired(reqs, identifier, t, window) ==
    SelectGT(Bucket(reqs, identifier), t - window * TicksPerSec)

(***************************************************************************)
(* C31: a check that denies appends nothing: the list retained for its     *)
(* identifier after the call is the list before it without the entries     *)
(* that left the window, and the reset it reports is the oldest of these   *)
(* retained timestamps plus the window (in whole seconds), so a denied     *)
(* attempt does not move the instant of readmission.                       *)
(***************************************************************************)
C31_DeniedConsumesNothing ==
    [][rl_log' # rl_log =>
          LET c == rl_log'[Len(rl_log')]
              kept == Unexpired(requests, c.id, c.t, c.window)
          IN  c.outcome = "denied" =>
                  /\ Bucket(requests', c.id) = kept
                  /\ kept # <<>>
                  /\ c.reset = IntSeconds(kept[1] + c.window * TicksPerSec)]_vars

(***************************************************************************)
(* C32: check_rate_limit is total: every call with a limit >= 0 returns an *)
(* (allowed, remaining, reset) triple and none raises; a call with limit 0 *)
(* that finds no retained timestamp for its identifier returns a denial.   *)
(***************************************************************************)
C32_CheckTotal ==
    \A i \in 1..Len(rl_log) :
        /\ rl_log[i].outcome \in {"allowed", "denied"}
        /\ (rl_log[i].limit = 0 /\ rl_log[i].prior = 0) => rl_log[i].outcome = "denied"

(***************************************************************************)
(* C3: validate_key(key, sources...) returns true if and only if key is    *)
(* non-empty and belongs to the key set of at least one of the sources,    *)
(* whatever the other sources are.                                          *)
(***************************************************************************)
C3_OrSemantics ==
    kret.op = "validate_key" =>
        /\ ~kret.raised
        /\ kret.ok <=>
              /\ kret.api_key # <<>>
              /\ \E i \in 1..Len(kret.sources) :
                     kret.api_key \in SourceKeySet(fs, kret.sources[i])

\* a later source holds the key, an earlier one cannot be used
C3_Reached ==
    /\ kret.op = "validate_key"
    /\ Len(kret.sources) = 2
    /\ kret.api_key \in SourceKeySet(fs, kret.sources[2])
    /\ kret.sources[1] = SrcTxt
    /\ kret.raised

(***************************************************************************)
(* C4: for a list of credential strings comma-joined, with whitespace      *)
(* around the items, into the global source, validate_api_key(k, settings) *)
(* is true for every k of the list and false for every other string; with  *)
(* an empty global source it is false for every key.                       *)
(***************************************************************************)
ItemSet(items) == {items[i] : i \in 1..Len(items)}

C17_SourceClassification ==
    (kret.op = "load_keys" /\ Strip(kret.source) # <<>>) =>
        IF PathIsFile(fs, Strip(kret.source))
        THEN kret.validation.type = "file"
        ELSE IF LooksLikePath(Strip(kret.source)) /\ ~PathExists(fs, Strip(kret.source))
             THEN ~kret.validation.valid /\ kret.raised /\ kret.keys = {}
             ELSE /\ kret.validation.type = "string"
                  /\ ParseKeyString(Strip(kret.source)) # {} =>
                         (~kret.raised /\ kret.keys = ParseKeyString(Strip(kret.source)))

\* C17 as amended: a source that names something on disk that is not a
\* regular file is a validation error too, and so is an Inline source whose
\* list holds no key
C17_SourceClassificationAmended ==
    (kret.op = "load_keys" /\ Strip(kret.source) # <<>>) =>
        IF PathIsFile(fs, Strip(kret.source))
        THEN kret.validation.type = "file"
        ELSE IF PathExists(fs, Strip(kret.source))
             THEN ~kret.validation.valid /\ kret.raised /\ kret.keys = {}
        ELSE IF LooksLikePath(Strip(kret.source))
             THEN ~kret.validation.valid /\ kret.raised /\ kret.keys = {}
             ELSE /\ kret.validation.type = "string"
                  /\ kret.raised <=> ParseKeyString(Strip(kret.source)) = {}
                  /\ kret.keys = ParseKeyString(Strip(kret.source))

\* load_keys was given a missing source that ends in '.txt'
C17_Witness ==
    /\ kret.op = "load_keys"
    /\ kret.source = SrcTxt
    /\ ~PathExists(fs, Strip(kret.source))
    /\ kret.raised
(***************************************************************************)
(* The key manager over time: key files are written, removed and made      *)
(* unreadable while the manager loads them, reloads them on modification   *)
(* events and is shut down.  Each manager operation runs under the lock.   *)
(***************************************************************************)
\* the file sources the process is configured with, and the file that changes
KeyFileSources == {SrcFileRel, SrcFileAbs}
WatchedFiles == {FileK}
RequestKeys == { <<"a">>, <<"c">> }

InitKeys ==
    /\ RLIdle
    /\ KeysIdle
    /\ PipeIdle
    /\ LoadIdle
    /\ ConcIdle
    /\ SvcIdle
    /\ HttpIdle
    /\ StartIdle

\* the watchers, by the path they were started for, that observe file f
WatchersOf(watchers, f) == {w \in DOMAIN watchers : Resolve(w) = f}

\* an editor or deployment writes the file
FsWrite ==
    \E f \in WatchedFiles, text \in FileTexts :
        /\ fs' = [fs EXCEPT ![f] = [exists |-> TRUE,
                                    readable |-> IF fs[f].exists THEN fs[f].readable ELSE TRUE,
                                    text |-> text]]
        /\ events' = events \cup WatchersOf(file_watchers, f)
        /\ UNCHANGED <<keys_cache, file_watchers, kret>>
        /\ UNCHANGED <<rlVars, pipeVars, loadVars, concVars, startVars, svcVars, httpVars>>

FsRemove ==
    \E f \in WatchedFiles :
        /\ fs[f].exists
        /\ fs' = [fs EXCEPT ![f] = NoFile]
        /\ UNCHANGED <<keys_cache, file_watchers, events, kret>>
        /\ UNCHANGED <<rlVars, pipeVars, loadVars, concVars, startVars, svcVars, httpVars>>

\* the file's permissions change
FsChmod ==
    \E f \in WatchedFiles :
        /\ fs[f].exists
        /\ fs' = [fs EXCEPT ![f].readable = ~fs[f].readable]
        /\ UNCHANGED <<keys_cache, file_watchers, events, kret>>
        /\ UNCHANGED <<rlVars, pipeVars, loadVars, concVars, startVars, svcVars, httpVars>>

KeysLoad ==
    \E source \in KeyFileSources, watch_ok \in BOOLEAN :
        LET r == LoadKeys(fs, keys_cache, file_watchers, source, watch_ok)
        IN  /\ keys_cache' = r.cache
            /\ file_watchers' = r.watchers
            /\ kret' = [op |-> "load_keys", source |-> source,
                        raised |-> r.raised, keys |-> r.keys]
            /\ UNCHANGED <<fs, events>>
            /\ UNCHANGED <<rlVars, pipeVars, loadVars, concVars, startVars, svcVars, httpVars>>

\* a request is authenticated against a file source
KeysValidate ==
    \E api_key \in RequestKeys, source \in KeyFileSources :
        LET r == ValidateKey(fs, keys_cache, file_watchers, api_key, <<source>>, TRUE)
        IN  /\ keys_cache' = r.cache
            /\ file_watchers' = r.watchers
            /\ kret' = [op |-> "validate_key", api_key |-> api_key,
                        sources |-> <<source>>, raised |-> r.raised, ok |-> r.ok,
                        files |-> fs, cache_before |-> keys_cache]
            /\ UNCHANGED <<fs, events>>
            /\ UNCHANGED <<rlVars, pipeVars, loadVars, concVars, startVars, svcVars, httpVars>>

\* APIKeyFileHandler.on_modified for the watcher started for path w
OnModified ==
    \E w \in events :
        /\ events' = events \ {w}
        /\ keys_cache' = ReloadFile(fs, keys_cache, w)
        /\ kret' = [op |-> "reload_file", path |-> w, read_ok |-> CanOpen(fs, w),
                    cached |-> w \in DOMAIN keys_cache, cache_before |-> keys_cache,
                    files |-> fs]
        /\ UNCHANGED <<fs, file_watchers>>
        /\ UNCHANGED <<rlVars, pipeVars, loadVars, concVars, startVars, svcVars, httpVars>>

\* shutdown: observer.stop() and observer.join() for every entry of the
\* watcher table, then self._file_watchers.clear()
StopWatchersKeep(watchers) == [stopped |-> DOMAIN watchers, watchers |-> watchers]
StopWatchers(watchers) == [stopped |-> DOMAIN watchers, watchers |-> <<>>]

\* APIKeyManager.shutdown
Shutdown ==
    LET r == StopWatchers(file_watchers)
    IN  /\ file_watchers' = r.watchers
        /\ events' = events \ r.stopped
        /\ kret' = [op |-> "shutdown", stopped |-> r.stopped,
                    watchers_before |-> file_watchers, cache_before |-> keys_cache,
                    again |-> kret.op = "shutdown",
                    stopped_before |-> IF kret.op = "shutdown" THEN kret.stopped ELSE {}]
        /\ UNCHANGED <<fs, keys_cache>>
        /\ UNCHANGED <<rlVars, pipeVars, loadVars, concVars, startVars, svcVars, httpVars>>

NextKeys ==
    \/ FsWrite \/ FsRemove \/ FsChmod
    \/ KeysLoad \/ KeysValidate \/ OnModified \/ Shutdown

SpecKeys == InitKeys /\ [][NextKeys]_vars

(***************************************************************************)
(* C5: when a reload of a loaded key file fails to read the file, the      *)
(* cached key set of that file stays exactly as it was before the reload.  *)
(***************************************************************************)
C5_StaleOnReadFailure ==
    (kret.op = "reload_file" /\ kret.cached /\ ~kret.read_ok) =>
        keys_cache[kret.path] = kret.cache_before[kret.path]

\* a reload that could not read the file found keys in the cache
C5_Reached ==
    /\ kret.op = "reload_file"
    /\ kret.cached
    /\ ~kret.read_ok
    /\ kret.cache_before[kret.path] # {}
(***************************************************************************)
(* C16: shutdown stops and joins every watcher that was active and leaves  *)
(* the watcher table empty; a shutdown that follows a shutdown stops       *)
(* nothing and finds and leaves the table empty; shutdown leaves the key   *)
(* cache as it was.                                                        *)
(***************************************************************************)
C16_ShutdownIdempotent ==
    kret.op = "shutdown" =>
        /\ file_watchers = <<>>
        /\ kret.stopped = DOMAIN kret.watchers_before
        /\ keys_cache = kret.cache_before
        /\ kret.again => (kret.stopped = {} /\ kret.watchers_before = <<>>)

\* a second shutdown, after a first one that stopped a watcher, with keys in
\* the cache
C16_Witness ==
    /\ kret.op = "shutdown"
    /\ kret.again
    /\ kret.stopped_before # {}
    /\ \E p \in DOMAIN keys_cache : keys_cache[p] # {}
(***************************************************************************)
(* The request pipeline (app.py, core/middleware.py, core/metrics.py,      *)
(* core/rate_limiter.py, core/request_validation.py) and the routes        *)
(* (core/router_factory.py, core/auth, routers/auth.py, routers/health.py).*)
(* One request at a time travels down the middleware stack to its route    *)
(* and back up; every dispatch is split at its call_next.                  *)
(***************************************************************************)
PublicLimit == 1
AuthLimit == 2
MaxRequests == 2

MAX_REQUEST_SIZE == 10 * 1024 * 1024

\* the add_middleware calls of _configure_middleware, in source order
AddOrder ==
    <<"cors", "security_headers", "request_validation", "metrics", "rate_limit",
      "request_id", "logging">>

\* add_middleware puts the new middleware in front of those added before it
\* ("first added is last executed")
AddMiddleware(stack, m) == <<m>> \o stack

RECURSIVE BuildStack(_, _)
BuildStack(stack, adds) ==
    IF adds = <<>> THEN stack
    ELSE BuildStack(AddMiddleware(stack, Head(adds)), Tail(adds))

\* the user middleware, outermost first
UserStack == BuildStack(<<>>, AddOrder)

\* the dynamic endpoints load_and_register has registered
Endpoints ==
    { [method |-> "GET", path |-> "/pub", requires_auth |-> FALSE, api_keys |-> <<>>],
      [method |-> "GET", path |-> "/sec", requires_auth |-> TRUE, api_keys |-> <<>>],
      [method |-> "POST", path |-> "/own", requires_auth |-> TRUE, api_keys |-> <<"b">>],
      [method |-> "GET", path |-> "/old", requires_auth |-> TRUE, api_keys |-> SrcTxt] }

BuiltinRoutes ==
    { [method |-> "GET", path |-> "/health"],
      [method |-> "GET", path |-> "/auth/status"],
      [method |-> "GET", path |-> "/auth/validate"] }

RoutePaths == {e.path : e \in Endpoints} \cup {r.path : r \in BuiltinRoutes}

\* the settings the process may run with
GlobalSources == {SrcInline, SrcTxt, <<>>}
SettingsSet == [api_keys : GlobalSources, rate_limit_enabled : BOOLEAN]

\* the requests clients send
ClientHost == "10.0.0.1"
ApiKeyHeaders == { <<>>, <<"a">>, <<"b">>, <<"x">> }
ContentLengths ==
    { [kind |-> "absent", n |-> 0], [kind |-> "bad", n |-> 0],
      [kind |-> "num", n |-> MAX_REQUEST_SIZE], [kind |-> "num", n |-> MAX_REQUEST_SIZE + 1] }
Requests ==
    { r \in [method : {"GET", "POST"},
             path : RoutePaths \cup {"/missing"},
             api_key : ApiKeyHeaders,
             content_length : ContentLengths,
             json : BOOLEAN,
             request_id : {"absent", "rid-1"}] :
        /\ r.method = "GET" => r.json
        /\ r.method = "POST" => r.path \in {"/own", "/health"}
        /\ r.request_id # "absent" => r.path = "/pub" /\ r.content_length.kind = "absent"
        /\ r.content_length.kind # "absent" =>
               /\ r.path \in {"/own", "/pub"}
               /\ r.api_key \in { <<>>, <<"b">> }
        /\ ~r.json => r.content_length.kind # "absent"
        /\ r.path \in {"/health", "/missing"} => r.api_key = <<>>
        /\ r.path = "/pub" => r.api_key \in { <<>>, <<"a">> }
        /\ r.path = "/old" => r.api_key \in { <<>>, <<"a">> } }

\* what the handler body meets: _extract_parameters raises, or call() returns,
\* raises an APIError or raises something else
ServiceOutcomes == {"ok", "api_error", "crash", "extract_error"}
ServiceErrorStatus == 404

NoHeaders == <<>>

\* an entry of the request's trace
Ev(kind, what) == [kind |-> kind, what |-> what, status |-> 0]
EvStatus(kind, what, status) == [kind |-> kind, what |-> what, status |-> status]

JSONResponse(status, body, headers) ==
    [kind |-> "response", status |-> status, headers |-> headers, body |-> body]
Exception(name) == [kind |-> "exception", exc |-> name]

ErrorBody(message, status_code, keys, request_id) ==
    [shape |-> "error", message |-> message, status_code |-> status_code,
     keys |-> keys, request_id |-> request_id]
ResultBody(keys) ==
    [shape |-> "result", message |-> "", status_code |-> 0, keys |-> keys,
     request_id |-> ""]

\* getattr(request.state, "request_id", "unknown")
StateRequestId(state) == IF state = "unset" THEN "unknown" ELSE state

\* api_exception_handler for an APIError
ApiExceptionResponse(message, status_code, error_code, state) ==
    JSONResponse(status_code,
                 ErrorBody(message, status_code,
                           {"message", "status_code", "error_code", "request_id", "details"},
                           StateRequestId(state)),
                 NoHeaders)

\* general_exception_handler
GeneralExceptionResponse(state) ==
    JSONResponse(500,
                 ErrorBody("Internal server error", 500,
                           {"message", "status_code", "request_id"},
                           StateRequestId(state)),
                 NoHeaders)

\* the framework's answer to an HTTPException (no route, wrong method)
HttpExceptionResponse(status) ==
    JSONResponse(status,
                 [shape |-> "detail", message |-> "", status_code |-> status,
                  keys |-> {"detail"}, request_id |-> ""],
                 NoHeaders)

\* what the required check makes of validate_api_key's answer v
VerifyOutcome(v) ==
    [outcome |-> IF v.raised THEN "error" ELSE IF v.ok THEN "ok" ELSE "denied",
     message |-> "Invalid API key", cache |-> v.cache, watchers |-> v.watchers]

\* verify_api_key / create_api_key_validator: the required check
\* [outcome: "ok" | "denied" | "error", cache, watchers]
VerifyApiKey(files, cache, watchers, api_key, api_keys, endpoint_keys) ==
    IF api_key = <<>>
    THEN [outcome |-> "denied", message |-> "API key required",
          cache |-> cache, watchers |-> watchers]
    ELSE VerifyOutcome(ValidateApiKey(files, cache, watchers, api_key, api_keys,
                                      endpoint_keys, TRUE))

\* what the optional check makes of validate_api_key's answer v
OptionalOutcome(v) ==
    [outcome |-> IF v.raised THEN "error" ELSE IF v.ok THEN "user" ELSE "none",
     cache |-> v.cache, watchers |-> v.watchers]

\* get_authenticated_user / create_optional_authenticator: the optional check
\* [outcome: "user" | "none" | "error", cache, watchers]
GetAuthenticatedUser(files, cache, watchers, api_key, api_keys, endpoint_keys) ==
    IF api_key = <<>>
    THEN [outcome |-> "none", cache |-> cache, watchers |-> watchers]
    ELSE OptionalOutcome(ValidateApiKey(files, cache, watchers, api_key, api_keys,
                                        endpoint_keys, TRUE))

\* what the try block of _handle_endpoint gives
HandlerResult(svc, state) ==
    IF svc = "ok" THEN JSONResponse(200, ResultBody({"result"}), NoHeaders)
    ELSE IF svc = "api_error"
         THEN ApiExceptionResponse("service error", ServiceErrorStatus, "ERR", state)
         ELSE Exception("RuntimeError")

\* DynamicRouter._handle_endpoint: the service is created, the parameters
\* extracted, call() awaited and cleanup() run in the finally clause
HandleEndpointNoFinally(svc, state) ==
    [events |-> << Ev("service", "create"), Ev("extract", "parameters") >>
                \o (IF svc = "extract_error" THEN <<>> ELSE << Ev("call", svc) >>)
                \o (IF svc = "ok" THEN << Ev("cleanup", "service") >> ELSE <<>>),
     result |-> HandlerResult(svc, state)]
HandleEndpoint(svc, state) ==
    [events |-> << Ev("service", "create"), Ev("extract", "parameters") >>
                \o (IF svc = "extract_error" THEN <<>> ELSE << Ev("call", svc) >>)
                \o << Ev("cleanup", "service") >>,
     result |-> HandlerResult(svc, state)]

\* a route guarded by the required check, once the check gave a: the
\* dependency is resolved before the handler body runs; AuthenticationError
\* goes to api_exception_handler, any other exception on
GuardedOutcome(a, state, inner) ==
    [cache |-> a.cache, watchers |-> a.watchers,
     events |-> << Ev("auth", a.outcome) >> \o (IF a.outcome = "ok" THEN inner.events ELSE <<>>),
     result |-> IF a.outcome = "ok" THEN inner.result
                ELSE IF a.outcome = "denied"
                     THEN ApiExceptionResponse(a.message, 401, "ERR_AUTH", state)
                     ELSE Exception("ValueError")]

\* an endpoint handler built by _create_handler, or auth_status: the required
\* check when the route asks for it, then the handler body inner
GuardedRoute(files, cache, watchers, request, api_keys, e, state, inner) ==
    IF e.requires_auth
    THEN GuardedOutcome(VerifyApiKey(files, cache, watchers, request.api_key, api_keys,
                                     e.api_keys),
                        state, inner)
    ELSE [cache |-> cache, watchers |-> watchers,
          events |-> inner.events, result |-> inner.result]

\* GET /auth/validate once the optional check gave u
ValidateRoute(u) ==
    [cache |-> u.cache, watchers |-> u.watchers,
     events |-> << Ev("auth", u.outcome) >>,
     result |-> IF u.outcome = "error" THEN Exception("ValueError")
                ELSE JSONResponse(200, ResultBody({"authenticated", "message"}), NoHeaders)]

\* auth_status, guarded by require_auth on the global keys
AuthStatusRoute == [requires_auth |-> TRUE, api_keys |-> <<>>]
AuthStatusBody ==
    [events |-> <<>>,
     result |-> JSONResponse(200, ResultBody({"authenticated", "message"}), NoHeaders)]

\* the application under the middleware: route match, dependencies, handler,
\* and the exception handlers registered for APIError
RouteResult(files, cache, watchers, request, conf, state, svc) ==
    LET plain(r) == [cache |-> cache, watchers |-> watchers, events |-> <<>>, result |-> r]
        eps == {e \in Endpoints : e.path = request.path /\ e.method = request.method}
    IN  IF request.path \notin RoutePaths THEN plain(HttpExceptionResponse(404))
        ELSE IF eps = {} /\ [method |-> request.method, path |-> request.path] \notin BuiltinRoutes
        THEN plain(HttpExceptionResponse(405))
        ELSE IF request.path = "/health"
        THEN plain(JSONResponse(200, ResultBody({"status", "timestamp"}), NoHeaders))
        ELSE IF request.path = "/auth/validate"
        THEN ValidateRoute(GetAuthenticatedUser(files, cache, watchers, request.api_key,
                                                conf.api_keys, <<>>))
        ELSE GuardedRoute(files, cache, watchers, request, conf.api_keys,
                          IF request.path = "/auth/status" THEN AuthStatusRoute
                          ELSE [requires_auth |-> (CHOOSE x \in eps : TRUE).requires_auth,
                                api_keys |-> (CHOOSE x \in eps : TRUE).api_keys],
                          state,
                          IF request.path = "/auth/status" THEN AuthStatusBody
                          ELSE HandleEndpoint(svc, state))

\* the status a dispatch sees on what call_next gave it
ResultStatus(r) == IF r.kind = "response" THEN r.status ELSE 0

\* response.headers[k] = v for the pairs of hs
WithHeaders(r, hs) == [r EXCEPT !.headers = hs @@ @]

\* the middleware whose dispatch is running
Stage == IF depth \in 1..Len(UserStack) THEN UserStack[depth] ELSE "app"

\* await call_next(request)
CallNext ==
    /\ pc' = "down"
    /\ depth' = depth + 1
    /\ UNCHANGED result

\* the dispatch returns r, or lets the exception r pass
Return(r) ==
    /\ pc' = "up"
    /\ depth' = depth - 1
    /\ result' = r

\* a dispatch that does nothing after call_next but hand on what it got
PassThrough(stage) ==
    /\ pc = "up"
    /\ Stage = stage
    /\ trace' = Append(trace, Ev(IF result.kind = "response" THEN "exit" ELSE "raise", stage))
    /\ Return(result)

InitPipe ==
    /\ RLIdle
    /\ KeysIdle
    /\ LoadIdle
    /\ ConcIdle
    /\ SvcIdle
    /\ HttpIdle
    /\ StartIdle
    /\ settings \in SettingsSet
    /\ req = NoReq
    /\ pc = "idle"
    /\ depth = 0
    /\ result = [kind |-> "none"]
    /\ trace = <<>>
    /\ rstate = "unset"
    /\ locals = NoLocals
    /\ metrics = NoMetrics
    /\ served = 0

\* the times requests arrive at: inside and outside the window of the first
PipeTimes == {0, 30 * TicksPerSec, 60 * TicksPerSec + 1}

\* time passes between requests
PipeAdvance ==
    /\ pc \in {"idle", "done"}
    /\ \E t \in PipeTimes :
        /\ t > now
        /\ now' = t
    /\ UNCHANGED <<requests, last_cleanup, rl_log>>
    /\ UNCHANGED <<keyVars, pipeVars, loadVars, concVars, startVars, svcVars, httpVars>>

\* a request arrives at the outermost middleware
StartRequest ==
    /\ pc \in {"idle", "done"}
    /\ served < MaxRequests
    /\ \E r \in Requests : req' = r
    /\ pc' = "down"
    /\ depth' = 1
    /\ result' = [kind |-> "none"]
    /\ trace' = <<>>
    /\ rstate' = "unset"
    /\ locals' = NoLocals
    /\ served' = served + 1
    /\ UNCHANGED <<settings, metrics>>
    /\ UNCHANGED <<rlVars, keyVars, loadVars, concVars, startVars, svcVars, httpVars>>

\* a record the logging stage emits: the event and the fields of its 'extra'
LogEv(kind, request_id, status, extra) ==
    [kind |-> kind, what |-> request_id, status |-> status, extra |-> extra]

\* the request-start record: message and extra of logger.info
LogRequestExtraWithKey(request, request_id) ==
    [message |-> <<"Request:", request.method, request.path>>,
     request_id |-> request_id, method |-> request.method, path |-> request.path,
     client |-> ClientHost, authenticated |-> request.api_key]
LogRequestExtra(request, request_id) ==
    [message |-> <<"Request:", request.method, request.path>>,
     request_id |-> request_id, method |-> request.method, path |-> request.path,
     client |-> ClientHost, authenticated |-> request.api_key # <<>>]

\* the completion record of a response; no time passes while a request is served
LogResponseExtra(request, request_id, status_code) ==
    [message |-> <<"Response:", request.method, request.path, status_code>>,
     request_id |-> request_id, method |-> request.method, path |-> request.path,
     status_code |-> status_code, process_time |-> 0]

\* the record of an exception
LogErrorExtra(request, request_id, error) ==
    [message |-> <<"Error processing request:", request.method, request.path>>,
     request_id |-> request_id, method |-> request.method, path |-> request.path,
     error |-> error, process_time |-> 0]

\* LoggingMiddleware.dispatch up to call_next
LoggingBefore ==
    /\ pc = "down"
    /\ Stage = "logging"
    /\ locals' = [locals EXCEPT !.log_request_id = StateRequestId(rstate)]
    /\ trace' = trace \o << Ev("enter", "logging"),
                             LogEv("log_request", StateRequestId(rstate), 0,
                                   LogRequestExtra(req, StateRequestId(rstate))) >>
    /\ CallNext
    /\ UNCHANGED <<settings, req, rstate, metrics, served>>
    /\ UNCHANGED <<rlVars, keyVars, loadVars, concVars, startVars, svcVars, httpVars>>

\* LoggingMiddleware.dispatch after call_next: the response is logged and
\* gets X-Process-Time, an exception is logged and raised again
LoggingAfter ==
    /\ pc = "up"
    /\ Stage = "logging"
    /\ IF result.kind = "response"
       THEN /\ trace' = trace \o << LogEv("log_response", locals.log_request_id, result.status,
                                          LogResponseExtra(req, locals.log_request_id,
                                                           result.status)),
                                    Ev("exit", "logging") >>
            /\ Return(WithHeaders(result, [h \in {"X-Process-Time"} |-> 0]))
       ELSE /\ trace' = trace \o << LogEv("log_error", locals.log_request_id, 0,
                                          LogErrorExtra(req, locals.log_request_id, result.exc)),
                                    Ev("raise", "logging") >>
            /\ Return(result)
    /\ UNCHANGED <<settings, req, rstate, locals, metrics, served>>
    /\ UNCHANGED <<rlVars, keyVars, loadVars, concVars, startVars, svcVars, httpVars>>

\* RequestIDMiddleware.dispatch up to call_next
RequestIDBefore ==
    /\ pc = "down"
    /\ Stage = "request_id"
    /\ LET request_id == IF req.request_id = "absent" THEN "uuid4" ELSE req.request_id
       IN  /\ rstate' = request_id
           /\ locals' = [locals EXCEPT !.request_id = request_id]
    /\ trace' = Append(trace, Ev("enter", "request_id"))
    /\ CallNext
    /\ UNCHANGED <<settings, req, metrics, served>>
    /\ UNCHANGED <<rlVars, keyVars, loadVars, concVars, startVars, svcVars, httpVars>>

\* RequestIDMiddleware.dispatch after call_next
RequestIDAfter ==
    /\ pc = "up"
    /\ Stage = "request_id"
    /\ IF result.kind = "response"
       THEN /\ trace' = Append(trace, Ev("exit", "request_id"))
            /\ Return(WithHeaders(result, [h \in {"X-Request-ID"} |-> locals.request_id]))
       ELSE /\ trace' = Append(trace, Ev("raise", "request_id"))
            /\ Return(result)
    /\ UNCHANGED <<settings, req, rstate, locals, metrics, served>>
    /\ UNCHANGED <<rlVars, keyVars, loadVars, concVars, startVars, svcVars, httpVars>>

\* the limit RateLimitMiddleware applies to the request
RequestLimit(request) == IF request.api_key # <<>> THEN AuthLimit ELSE PublicLimit

\* the identifier RateLimitMiddleware counts the request under
RequestIdentifierHost(request) == <<ClientHost>>
RequestIdentifier(request) ==
    IF request.api_key # <<>> THEN <<"api_key:">> \o request.api_key ELSE <<ClientHost>>

\* RateLimitMiddleware.dispatch up to call_next
RateLimitBefore ==
    /\ pc = "down"
    /\ Stage = "rate_limit"
    /\ IF ~settings.rate_limit_enabled
       THEN /\ trace' = Append(trace, Ev("enter", "rate_limit"))
            /\ locals' = [locals EXCEPT !.rl = NoRl]
            /\ CallNext
            /\ UNCHANGED <<requests, last_cleanup>>
       ELSE LET limit == RequestLimit(req)
                c == CheckRateLimitResult(requests, last_cleanup, now,
                                          RequestIdentifier(req), limit,
                                          DefaultWindowSeconds)
            IN  /\ requests' = c.reqs
                /\ last_cleanup' = c.lc
                /\ IF c.ret.outcome = "raised"
                   THEN /\ trace' = trace \o << Ev("enter", "rate_limit"),
                                                Ev("check_rate_limit", "raised"),
                                                Ev("raise", "rate_limit") >>
                        /\ UNCHANGED locals
                        /\ Return(Exception("IndexError"))
                   ELSE /\ trace' = trace \o << Ev("enter", "rate_limit"),
                                                Ev("check_rate_limit", c.ret.outcome) >>
                        /\ locals' = [locals EXCEPT !.rl =
                                         [checked |-> TRUE,
                                          allowed |-> c.ret.outcome = "allowed",
                                          limit |-> limit,
                                          remaining |-> c.ret.remaining,
                                          reset |-> c.ret.reset]]
                        /\ CallNext
    /\ UNCHANGED <<now, rl_log>>
    /\ UNCHANGED <<settings, req, rstate, metrics, served>>
    /\ UNCHANGED <<keyVars, loadVars, concVars, startVars, svcVars, httpVars>>

\* the headers RateLimitMiddleware puts on a response
RateLimitHeaders(rl, remaining) ==
    [h \in {"X-RateLimit-Limit", "X-RateLimit-Remaining", "X-RateLimit-Reset"} |->
        IF h = "X-RateLimit-Limit" THEN rl.limit
        ELSE IF h = "X-RateLimit-Remaining" THEN remaining ELSE rl.reset]

\* the 429 RateLimitMiddleware builds when the check denied the request
RateLimitExceeded(rl) ==
    JSONResponse(429,
                 ErrorBody("Rate limit exceeded", 429,
                           {"message", "status_code", "details"}, ""),
                 RateLimitHeaders(rl, 0))

\* RateLimitMiddleware.dispatch after call_next
RateLimitAfter ==
    /\ pc = "up"
    /\ Stage = "rate_limit"
    /\ IF result.kind # "response"
       THEN /\ trace' = Append(trace, Ev("raise", "rate_limit"))
            /\ Return(result)
       ELSE /\ trace' = Append(trace, Ev("exit", "rate_limit"))
            /\ IF ~locals.rl.checked
               THEN Return(result)
               ELSE IF ~locals.rl.allowed
                    THEN Return(RateLimitExceeded(locals.rl))
                    ELSE Return(WithHeaders(result,
                                            RateLimitHeaders(locals.rl, locals.rl.remaining)))
    /\ UNCHANGED <<settings, req, rstate, locals, metrics, served>>
    /\ UNCHANGED <<rlVars, keyVars, loadVars, concVars, startVars, svcVars, httpVars>>

\* MetricsMiddleware.dispatch up to call_next
MetricsBefore ==
    /\ pc = "down"
    /\ Stage = "metrics"
    /\ trace' = Append(trace, Ev("enter", "metrics"))
    /\ CallNext
    /\ UNCHANGED <<settings, req, rstate, locals, metrics, served>>
    /\ UNCHANGED <<rlVars, keyVars, loadVars, concVars, startVars, svcVars, httpVars>>

\* the threshold from which record_request counts a status as an error
IsErrorServerOnly(status_code) == status_code >= 500
IsError(status_code) == status_code >= 400

\* d[k] of a defaultdict: the default for a key it does not hold
DefaultGet(d, k, default) == IF k \in DOMAIN d THEN d[k] ELSE default

\* MetricsCollector.record_request at time t; the key f"{method} {path}" is
\* the pair of its two parts
RecordRequest(m, path, method, status_code, duration, t) ==
    LET endpoint_key == <<method, path>>
        old == DefaultGet(m.endpoints, endpoint_key, EndpointMetrics)
        error == IF IsError(status_code) THEN 1 ELSE 0
        new == [count |-> old.count + 1,
                total_time |-> old.total_time + duration,
                error_count |-> old.error_count + error,
                last_request_time |-> t,
                status_codes |-> DictSet(old.status_codes, status_code,
                                         DefaultGet(old.status_codes, status_code, 0) + 1)]
    IN  [endpoints |-> DictSet(m.endpoints, endpoint_key, new),
         start_time |-> m.start_time,
         total_requests |-> m.total_requests + 1,
         total_errors |-> m.total_errors + error]

\* MetricsCollector.reset at time t
ResetMetrics(m, t) ==
    [endpoints |-> <<>>, start_time |-> t, total_requests |-> 0, total_errors |-> 0]

\* MetricsMiddleware.dispatch after call_next: the statements after the await
\* run only if the await returned
MetricsAfter ==
    /\ pc = "up"
    /\ Stage = "metrics"
    /\ IF result.kind = "response"
       THEN /\ metrics' = RecordRequest(metrics, req.path, req.method, result.status, 0, now)
            /\ trace' = trace \o << EvStatus("record_request", req.path, result.status),
                                    Ev("exit", "metrics") >>
       ELSE /\ UNCHANGED metrics
            /\ trace' = Append(trace, Ev("raise", "metrics"))
    /\ Return(result)
    /\ UNCHANGED <<settings, req, rstate, locals, served>>
    /\ UNCHANGED <<rlVars, keyVars, loadVars, concVars, startVars, svcVars, httpVars>>

\* the 413 RequestValidationMiddleware builds
RequestTooLarge ==
    JSONResponse(413,
                 ErrorBody("Request entity too large", 413,
                           {"message", "status_code", "error_code", "details"}, ""),
                 NoHeaders)

\* size > MAX_REQUEST_SIZE
ExceedsMaxNever(size) == FALSE
ExceedsMax(size) == size > MAX_REQUEST_SIZE

\* the content-type test of RequestValidationMiddleware.dispatch for a request
\* whose content-length converts to the integer n: logger.warning is called
UnexpectedContentType(request, n) ==
    /\ request.method \in {"POST", "PUT", "PATCH"}
    /\ ~request.json
    /\ n > 0

\* RequestValidationMiddleware.dispatch up to call_next
RequestValidationBefore ==
    /\ pc = "down"
    /\ Stage = "request_validation"
    /\ LET cl == req.content_length
       IN  IF cl.kind = "num" /\ ExceedsMax(cl.n)
           THEN /\ trace' = trace \o << Ev("enter", "request_validation"),
                                        Ev("exit", "request_validation") >>
                /\ Return(RequestTooLarge)
           ELSE IF req.method = "POST" /\ ~req.json /\ cl.kind = "bad"
           THEN \* the second int(content_length) is outside the try
                /\ trace' = trace \o << Ev("enter", "request_validation"),
                                        Ev("raise", "request_validation") >>
                /\ Return(Exception("ValueError"))
           ELSE /\ trace' = trace \o << Ev("enter", "request_validation") >> \o
                              (IF cl.kind = "num" /\ UnexpectedContentType(req, cl.n)
                               THEN << Ev("warning", "content_type") >>
                               ELSE << >>)
                /\ CallNext
    /\ UNCHANGED <<settings, req, rstate, locals, metrics, served>>
    /\ UNCHANGED <<rlVars, keyVars, loadVars, concVars, startVars, svcVars, httpVars>>

\* RequestValidationMiddleware.dispatch: return await call_next(request)
RequestValidationAfter ==
    /\ PassThrough("request_validation")
    /\ UNCHANGED <<settings, req, rstate, locals, metrics, served>>
    /\ UNCHANGED <<rlVars, keyVars, loadVars, concVars, startVars, svcVars, httpVars>>

\* SecurityHeadersMiddleware.dispatch up to call_next
SecurityHeadersBefore ==
    /\ pc = "down"
    /\ Stage = "security_headers"
    /\ trace' = Append(trace, Ev("enter", "security_headers"))
    /\ CallNext
    /\ UNCHANGED <<settings, req, rstate, locals, metrics, served>>
    /\ UNCHANGED <<rlVars, keyVars, loadVars, concVars, startVars, svcVars, httpVars>>

SecurityHeaderNames ==
    {"X-Content-Type-Options", "X-Frame-Options", "X-XSS-Protection",
     "Strict-Transport-Security", "Referrer-Policy"}

\* SecurityHeadersMiddleware.dispatch after call_next
SecurityHeadersAfter ==
    /\ pc = "up"
    /\ Stage = "security_headers"
    /\ IF result.kind = "response"
       THEN /\ trace' = Append(trace, Ev("exit", "security_headers"))
            /\ Return(WithHeaders(result, [h \in SecurityHeaderNames |-> "set"]))
       ELSE /\ trace' = Append(trace, Ev("raise", "security_headers"))
            /\ Return(result)
    /\ UNCHANGED <<settings, req, rstate, locals, metrics, served>>
    /\ UNCHANGED <<rlVars, keyVars, loadVars, concVars, startVars, svcVars, httpVars>>

\* CORSMiddleware on a request without an Origin header: straight through
CorsBefore ==
    /\ pc = "down"
    /\ Stage = "cors"
    /\ trace' = Append(trace, Ev("enter", "cors"))
    /\ CallNext
    /\ UNCHANGED <<settings, req, rstate, locals, metrics, served>>
    /\ UNCHANGED <<rlVars, keyVars, loadVars, concVars, startVars, svcVars, httpVars>>

CorsAfter ==
    /\ PassThrough("cors")
    /\ UNCHANGED <<settings, req, rstate, locals, metrics, served>>
    /\ UNCHANGED <<rlVars, keyVars, loadVars, concVars, startVars, svcVars, httpVars>>

\* the state the router leaves when it served the request with r
Routed(r) ==
    /\ keys_cache' = r.cache
    /\ file_watchers' = r.watchers
    /\ trace' = trace \o << Ev("enter", "app") >> \o r.events
                      \o << EvStatus("route", r.result.kind, ResultStatus(r.result)) >>
    /\ Return(r.result)

\* the router under the middleware serves the request
Route ==
    /\ pc = "down"
    /\ Stage = "app"
    /\ \E svc \in ServiceOutcomes :
        Routed(RouteResult(fs, keys_cache, file_watchers, req, settings, rstate, svc))
    /\ UNCHANGED <<fs, events, kret>>
    /\ UNCHANGED <<settings, req, rstate, locals, metrics, served>>
    /\ UNCHANGED <<rlVars, loadVars, concVars, startVars, svcVars, httpVars>>

\* ServerErrorMiddleware, outside every user middleware: an exception that got
\* this far is answered by general_exception_handler; the client gets the result
Deliver ==
    /\ pc = "up"
    /\ depth = 0
    /\ result' = IF result.kind = "response" THEN result ELSE GeneralExceptionResponse(rstate)
    /\ trace' = Append(trace, Ev("deliver", result.kind))
    /\ pc' = "done"
    /\ UNCHANGED <<settings, req, depth, rstate, locals, metrics, served>>
    /\ UNCHANGED <<rlVars, keyVars, loadVars, concVars, startVars, svcVars, httpVars>>

NextPipe ==
    \/ PipeAdvance
    \/ StartRequest
    \/ LoggingBefore
    \/ LoggingAfter
    \/ RequestIDBefore
    \/ RequestIDAfter
    \/ RateLimitBefore
    \/ RateLimitAfter
    \/ MetricsBefore
    \/ MetricsAfter
    \/ RequestValidationBefore
    \/ RequestValidationAfter
    \/ SecurityHeadersBefore
    \/ SecurityHeadersAfter
    \/ CorsBefore
    \/ CorsAfter
    \/ Route
    \/ Deliver

SpecPipe == InitPipe /\ [][NextPipe]_vars
\* what has happened for the request so far
Happened(kind, what) == \E i \in 1..Len(trace) : trace[i].kind = kind /\ trace[i].what = what
HappenedKind(kind) == \E i \in 1..Len(trace) : trace[i].kind = kind
CountKind(kind) == Cardinality({i \in 1..Len(trace) : trace[i].kind = kind})

\* the request is for GET /auth/status or a dynamic endpoint declared with
\* requires_auth, and the credentials that open it
GuardedEndpoints ==
    {e \in Endpoints : e.requires_auth /\ e.path = req.path /\ e.method = req.method}
GuardedRequest ==
    \/ GuardedEndpoints # {}
    \/ (req.method = "GET" /\ req.path = "/auth/status")
ApplicableSource ==
    IF GuardedEndpoints # {} /\ (CHOOSE e \in GuardedEndpoints : TRUE).api_keys # <<>>
    THEN (CHOOSE e \in GuardedEndpoints : TRUE).api_keys
    ELSE settings.api_keys
ApplicableKeySet == SourceKeySet(fs, ApplicableSource)

(***************************************************************************)
(* C2: once the router has served a request for a dynamic endpoint         *)
(* declared with requires_auth, or for GET /auth/status: if the credential *)
(* is missing or not in the applicable key set the router answered 401     *)
(* and neither the parameter extraction nor the service's call() ran; if   *)
(* the credential is in the applicable key set the request was not         *)
(* refused and, on a dynamic endpoint, call() ran.                         *)
(***************************************************************************)
C2_AuthPrecedesDispatch ==
    \A i \in 1..Len(trace) :
        (trace[i].kind = "route" /\ GuardedRequest) =>
            IF req.api_key # <<>> /\ req.api_key \in ApplicableKeySet
            THEN /\ trace[i].status # 401
                 /\ GuardedEndpoints # {} => HappenedKind("call")
            ELSE /\ trace[i].status = 401
                 /\ ~HappenedKind("extract")
                 /\ ~HappenedKind("call")

(***************************************************************************)
(* C19: once the router has served GET /auth/validate, the optional check  *)
(* did not raise and gave a principal exactly when the supplied credential *)
(* is in the global key set, and the router answered 200.                  *)
(***************************************************************************)
C19_OptionalNeverRaises ==
    \A i \in 1..Len(trace) :
        (trace[i].kind = "route" /\ req.method = "GET" /\ req.path = "/auth/validate") =>
            /\ ~Happened("auth", "error")
            /\ Happened("auth", "user") <=>
                   (req.api_key # <<>> /\ req.api_key \in SourceKeySet(fs, settings.api_keys))
            /\ trace[i].what = "response"
            /\ trace[i].status = 200

(***************************************************************************)
(* C20: once the router has served a request for a dynamic endpoint        *)
(* declared with requires_auth, the request was authenticated exactly when *)
(* its credential is in the key set of the endpoint's override source, or  *)
(* of the global source when the endpoint has no override; on an endpoint  *)
(* with an override, a credential that is in the global key set and not in *)
(* the override's was answered 401.                                        *)
(***************************************************************************)
C20_OverrideExclusive ==
    \A i \in 1..Len(trace) :
        (trace[i].kind = "route" /\ GuardedEndpoints # {}) =>
            /\ Happened("auth", "ok") <=>
                   (req.api_key # <<>> /\ req.api_key \in ApplicableKeySet)
            /\ (/\ ApplicableSource # settings.api_keys
                /\ req.api_key \in SourceKeySet(fs, settings.api_keys)
                /\ req.api_key \notin ApplicableKeySet) => trace[i].status = 401

\* the stages the dispatch of stage hands the request on to, and the app
StagePos(stage) == CHOOSE k \in 1..Len(UserStack) : UserStack[k] = stage
InnerStages(stage) ==
    {UserStack[k] : k \in (StagePos(stage) + 1)..Len(UserStack)} \cup {"app"}

\* the dispatch of the validation stage entered at trace[i] has handed the
\* request to the next stage, after at most a warning
Forwarded(i) ==
    LET j == IF i < Len(trace) /\ trace[i + 1].kind = "warning" THEN i + 1 ELSE i
    IN  IF j = Len(trace)
        THEN pc = "down" /\ Stage \in InnerStages("request_validation")
        ELSE /\ trace[j + 1].kind = "enter"
             /\ trace[j + 1].what \in InnerStages("request_validation")

(***************************************************************************)
(* C23: for a request with a numeric content length n that reaches the     *)
(* request validation stage: if n > 10 MiB the stage answers 413, no stage *)
(* inside it is entered and no route handler runs; if n <= 10 MiB the      *)
(* stage hands the request to the next stage.                              *)
(***************************************************************************)
C23_OversizeRejection ==
    \A i \in 1..Len(trace) :
        (/\ trace[i].kind = "enter"
         /\ trace[i].what = "request_validation"
         /\ req.content_length.kind = "num") =>
            IF req.content_length.n > 10 * 1024 * 1024
            THEN /\ i < Len(trace)
                 /\ trace[i + 1] = Ev("exit", "request_validation")
                 /\ \A j \in 1..Len(trace) :
                       /\ trace[j].kind = "enter" => trace[j].what \notin InnerStages("request_validation")
                       /\ trace[j].kind \notin {"route", "auth", "service", "extract", "call"}
                 /\ i + 1 = Len(trace) => (result.kind = "response" /\ result.status = 413)
            ELSE Forwarded(i)

\* a request declaring one byte more than the ceiling got its 413, and one
\* declaring exactly the ceiling reached its route
C23_Witness ==
    /\ pc = "done"
    /\ req.content_length.kind = "num"
    /\ \/ req.content_length.n = MAX_REQUEST_SIZE + 1 /\ result.status = 413
       \/ req.content_length.n = MAX_REQUEST_SIZE /\ HappenedKind("route")

(***************************************************************************)
(* C36: the validation stage hands on every request whose content length  *)
(* is absent, not a number or at most 10 MiB, whatever its method and      *)
(* content type, and raises nothing of its own; a POST with a body and an  *)
(* unexpected content type is handed on too, after a warning, and only a   *)
(* POST with an unexpected content type is warned about.                   *)
(***************************************************************************)
C36_RejectsOnlyForSize ==
    \A i \in 1..Len(trace) :
        (/\ trace[i].kind = "enter"
         /\ trace[i].what = "request_validation"
         /\ req.content_length.kind = "num" => req.content_length.n <= MAX_REQUEST_SIZE) =>
            LET warned == i < Len(trace) /\ trace[i + 1] = Ev("warning", "content_type")
            IN  /\ Forwarded(i)
                /\ warned => (req.method = "POST" /\ ~req.json)
                /\ (/\ req.method = "POST"
                    /\ ~req.json
                    /\ req.content_length.kind = "num"
                    /\ req.content_length.n > 0) => warned

(***************************************************************************)
(* C24: every response delivered with status 401, 413, 429 or 500, and     *)
(* every response to a request whose service raised an API error, has an   *)
(* error body that holds message, status_code, error_code and request_id,  *)
(* with status_code equal to the status of the response.                   *)
(***************************************************************************)
C24_ErrorResponseShape ==
    (/\ pc = "done"
     /\ \/ result.status \in {401, 413, 429, 500}
        \/ Happened("call", "api_error")) =>
        /\ result.body.shape = "error"
        /\ {"message", "status_code", "error_code", "request_id"} \subseteq result.body.keys
        /\ result.body.status_code = result.status

(***************************************************************************)
(* C25: the client of a request whose service raised an API error with     *)
(* status s gets status s and the error's message; the client of a request *)
(* that failed authentication gets 401; the client of a request whose      *)
(* route raised any other exception gets 500 with the generic message and  *)
(* nothing of the exception.                                               *)
(***************************************************************************)
C25_ErrorPropagation ==
    pc = "done" =>
        /\ Happened("call", "api_error") =>
              /\ result.status = ServiceErrorStatus
              /\ result.body.message = "service error"
        /\ Happened("auth", "denied") => result.status = 401
        /\ Happened("route", "exception") =>
              /\ result.status = 500
              /\ result.body.message = "Internal server error"
              /\ result.body.keys \subseteq {"message", "status_code", "error_code", "request_id"}

\* the correlation ID of the request: the inbound header, or the minted one
ExpectedRequestId == IF req.request_id # "absent" THEN req.request_id ELSE "uuid4"

(***************************************************************************)
(* C26: for a delivered request that went through the correlation-ID       *)
(* stage, the ID in request state, the X-Request-ID header of the response *)
(* and the request_id of an error body are all the inbound X-Request-ID,   *)
(* or all the ID minted for the request when it carried none.              *)
(***************************************************************************)
C26_CorrelationId ==
    (pc = "done" /\ Happened("enter", "request_id")) =>
        /\ rstate = ExpectedRequestId
        /\ "X-Request-ID" \in DOMAIN result.headers
        /\ result.headers["X-Request-ID"] = ExpectedRequestId
        /\ (result.body.shape = "error" /\ "request_id" \in result.body.keys) =>
               result.body.request_id = ExpectedRequestId

\* the records the logging stage has emitted for the request
LogRecords ==
    {i \in 1..Len(trace) : trace[i].kind \in {"log_request", "log_response", "log_error"}}

(***************************************************************************)
(* C33: every record the logging stage emits for a request, at its start   *)
(* and at its completion, carries the correlation ID of the request (the   *)
(* one stored in request state and returned in X-Request-ID), never the    *)
(* placeholder "unknown".                                                  *)
(***************************************************************************)
C33_LoggingSeesCorrelationId ==
    \A i \in LogRecords :
        /\ trace[i].what # "unknown"
        /\ trace[i].what = ExpectedRequestId
        /\ (pc = "done" /\ "X-Request-ID" \in DOMAIN result.headers) =>
               trace[i].what = result.headers["X-Request-ID"]

\* the record the logging stage emits at trace[i] if the request is request
ExpectedRecord(request, i) ==
    IF trace[i].kind = "log_request"
    THEN LogRequestExtra(request, trace[i].what)
    ELSE IF trace[i].kind = "log_response"
         THEN LogResponseExtra(request, trace[i].what, trace[i].status)
         ELSE LogErrorExtra(request, trace[i].what, trace[i].extra.error)

(***************************************************************************)
(* C39: every record the logging stage emits for a request that carries a  *)
(* credential is the record it emits, for the same outcome, for the        *)
(* request with any other non-empty credential value in its place; the     *)
(* request-start record says that a credential was present.                *)
(***************************************************************************)
C39_LogsHideCredential ==
    \A i \in LogRecords :
        req.api_key # <<>> =>
            /\ \A k \in ApiKeyHeaders \ {<<>>} :
                  trace[i].extra = ExpectedRecord([req EXCEPT !.api_key = k], i)
            /\ trace[i].kind = "log_request" => trace[i].extra.authenticated = TRUE

\* a request with a credential was logged at its start and at its completion
C39_Witness ==
    /\ pc = "done"
    /\ req.api_key = <<"x">>
    /\ \E i \in LogRecords, j \in LogRecords :
          /\ i < j
          /\ trace[i].kind = "log_request"
          /\ trace[j].kind = "log_response"
          /\ trace[j].extra.status_code = result.status

(***************************************************************************)
(* C34: for every delivered request the metrics stage recorded, the status *)
(* code it recorded is the status code of the response the client gets,    *)
(* the 413 of validation and the 429 of rate limiting included.            *)
(***************************************************************************)
C34_MetricsFinalStatus ==
    pc = "done" =>
        \A i \in 1..Len(trace) :
            trace[i].kind = "record_request" => trace[i].status = result.status

\* the timestamps of identifier id that a check at the present time retains
Retained(reqs, id) == SelectGT(Bucket(reqs, id), now - DefaultWindowSeconds * TicksPerSec)

\* the step of the rate limiting stage for the request
RateLimitStep ==
    /\ pc = "down"
    /\ Stage = "rate_limit"
    /\ settings.rate_limit_enabled
    /\ trace' # trace

\* the identifier and limit the policy gives the request
PolicyIdentifier ==
    IF req.api_key # <<>> THEN <<"api_key:">> \o req.api_key ELSE <<ClientHost>>
PolicyLimit == IF req.api_key # <<>> THEN AuthLimit ELSE PublicLimit

(***************************************************************************)
(* C27: the rate limiting stage checks a request that carries a credential *)
(* under 'api_key:<credential>' with the authenticated limit and any other *)
(* request under the caller's address with the public limit; the check     *)
(* leaves the retained timestamps of every other identifier as they were,  *)
(* and no other step changes the limiter.                                  *)
(***************************************************************************)
C27_IdentityPolicy ==
    [][/\ RateLimitStep =>
            /\ locals'.rl.checked => locals'.rl.limit = PolicyLimit
            /\ (locals'.rl.checked /\ locals'.rl.allowed) =>
                   Bucket(requests', PolicyIdentifier)
                       = Append(Retained(requests, PolicyIdentifier), now)
            /\ (locals'.rl.checked /\ ~locals'.rl.allowed) =>
                   Bucket(requests', PolicyIdentifier) = Retained(requests, PolicyIdentifier)
            /\ \A other \in (DOMAIN requests \cup DOMAIN requests') \ {PolicyIdentifier} :
                   Retained(requests', other) = Retained(requests, other)
       /\ ~RateLimitStep => requests' = requests]_vars

\* the check of a request with a credential was made while the caller's
\* address had a retained timestamp
C27_Witness ==
    /\ Happened("check_rate_limit", "allowed")
    /\ req.api_key # <<>>
    /\ locals.rl.limit = AuthLimit
    /\ <<ClientHost>> \in DOMAIN requests
    /\ Retained(requests, <<ClientHost>>) # <<>>
    /\ PolicyIdentifier \in DOMAIN requests

\* the credential of the request is a key of the global source or of the
\* source of some endpoint
ValidCredential ==
    /\ req.api_key # <<>>
    /\ req.api_key \in SourceKeySet(fs, settings.api_keys)
                          \cup UNION {SourceKeySet(fs, e.api_keys) : e \in Endpoints}

(***************************************************************************)
(* C37: the rate limiting stage counts a request whose credential is not a *)
(* valid key under the caller's address with the public limit: it gets the *)
(* public limit, an allowed one is added to the bucket of the address, and *)
(* no credential-qualified bucket gains a timestamp.                       *)
(***************************************************************************)
C37_AuthenticatedBand ==
    [][(RateLimitStep /\ locals'.rl.checked /\ ~ValidCredential) =>
          /\ locals'.rl.limit = PublicLimit
          /\ locals'.rl.allowed =>
                 Bucket(requests', <<ClientHost>>)
                     = Append(Retained(requests, <<ClientHost>>), now)
          /\ \A id \in DOMAIN requests' \ {<<ClientHost>>} :
                 Retained(requests', id) = Retained(requests, id)]_vars

(***************************************************************************)
(* C6: the stages are entered in the order security headers, request       *)
(* validation, metrics, rate limiting, correlation ID, structured logging, *)
(* and left in the mirrored order.                                         *)
(***************************************************************************)
StatedOrder ==
    <<"security_headers", "request_validation", "metrics", "rate_limit", "request_id",
      "logging">>
StatedPos(stage) == CHOOSE k \in 1..Len(StatedOrder) : StatedOrder[k] = stage
StatedStages == {StatedOrder[k] : k \in 1..Len(StatedOrder)}
Enters(i) == trace[i].kind = "enter" /\ trace[i].what \in StatedStages
Leaves(i) == trace[i].kind \in {"exit", "raise"} /\ trace[i].what \in StatedStages

C6_PipelineOrder ==
    \A i \in 1..Len(trace), j \in 1..Len(trace) :
        /\ (i < j /\ Enters(i) /\ Enters(j)) => StatedPos(trace[i].what) < StatedPos(trace[j].what)
        /\ (i < j /\ Leaves(i) /\ Leaves(j)) => StatedPos(trace[i].what) > StatedPos(trace[j].what)

(***************************************************************************)
(* C7: once the metrics stage has been left by a request that entered it,  *)
(* exactly one record_request has been performed for the request, whether  *)
(* the inner chain returned a response or raised.                          *)
(***************************************************************************)
C7_MetricsAlwaysFinalize ==
    (Happened("enter", "metrics") /\ (Happened("exit", "metrics") \/ Happened("raise", "metrics")))
        => CountKind("record_request") = 1

(***************************************************************************)
(* C8: when check_rate_limit denied the request, nothing inside the rate   *)
(* limiting stage is entered for it (no inner stage, no route handler, no  *)
(* service call) and the client receives a 429.                            *)
(***************************************************************************)
C8_DenialShortCircuits ==
    Happened("check_rate_limit", "denied") =>
        /\ \A i \in 1..Len(trace), j \in 1..Len(trace) :
              (trace[i].kind = "check_rate_limit" /\ i < j) =>
                  trace[j].kind \notin {"enter", "auth", "service", "extract", "call"}
        /\ pc = "done" => result.status = 429

(***************************************************************************)
(* C9: every response delivered to a client carries the correlation-ID     *)
(* header, the processing-time header, the three rate-limit headers and    *)
(* the fixed security headers.                                             *)
(***************************************************************************)
StandardHeaders ==
    {"X-Request-ID", "X-Process-Time", "X-RateLimit-Limit", "X-RateLimit-Remaining",
     "X-RateLimit-Reset"} \cup SecurityHeaderNames

C9_StandardHeaders ==
    pc = "done" => StandardHeaders \subseteq DOMAIN result.headers

(***************************************************************************)
(* Endpoint configuration loading (config/endpoint_config.py,              *)
(* DynamicRouter.load_and_register)                                        *)
(***************************************************************************)
MaxDecls == 3

\* a path template the framework refuses to compile: a parameter named twice
DupParamPath == <<"/", "{", "x", "}", "/", "{", "x", "}">>

DeclPaths == { <<"/", "a">>, <<"/", "b">>, <<"a">>, DupParamPath }
DeclMethods == {"GET", "POST"}
ServiceRegistry == {"crypto"}
DeclServices == ServiceRegistry \cup {"Crypto", "nope"}

\* name.lower() on the service names in use
Lower(name) == IF name = "Crypto" THEN "crypto" ELSE name

\* core.services.get_service: TRUE when a service class is found
GetService(name) == Lower(name) \in ServiceRegistry

Declarations ==
    { d \in [path : DeclPaths, method : DeclMethods, service : DeclServices,
             enabled : BOOLEAN] :
        /\ d.path = DupParamPath => d.method = "GET"
        /\ d.service = "Crypto" => (d.path = <<"/", "a">> /\ d.method = "GET" /\ d.enabled) }

Documents ==
    { [exists |-> FALSE, endpoints |-> <<>>] } \cup
    { [exists |-> TRUE, endpoints |-> d] :
        d \in UNION {[1..n -> Declarations] : n \in 0..MaxDecls} }

\* EndpointConfig.validate_path
ValidatePath(v) == StartsWith(v, <<"/">>)

\* EndpointsConfig.validate_endpoints: TRUE unless it raises
ValidateEndpointsAll(v) ==
    LET paths_methods == [i \in 1..Len(v) |-> <<v[i].path, v[i].method>>]
    IN  Len(paths_methods) = Cardinality({paths_methods[i] : i \in 1..Len(paths_methods)})
ValidateEndpoints(v) ==
    LET enabled == SelectSeq(v, LAMBDA e : e.enabled)
        paths_methods == [i \in 1..Len(enabled) |-> <<enabled[i].path, enabled[i].method>>]
    IN  Len(paths_methods) = Cardinality({paths_methods[i] : i \in 1..Len(paths_methods)})

\* load_endpoints_config: the configuration, or raised
LoadEndpointsConfig(doc) ==
    IF ~doc.exists THEN [raised |-> FALSE, endpoints |-> <<>>]
    ELSE IF \E i \in 1..Len(doc.endpoints) : ~ValidatePath(doc.endpoints[i].path)
    THEN [raised |-> TRUE, endpoints |-> <<>>]
    ELSE IF ~ValidateEndpoints(doc.endpoints)
    THEN [raised |-> TRUE, endpoints |-> <<>>]
    ELSE [raised |-> FALSE, endpoints |-> doc.endpoints]

\* route_method(**route_kwargs)(handler) raises for this declaration
RegistrationRaises(config) == config.path = DupParamPath

\* DynamicRouter.register_endpoint inside the try of load_and_register's loop:
\* registered_endpoints after it
RegisterEndpointAll(registered, config) ==
    IF ~GetService(config.service) THEN registered
    ELSE IF RegistrationRaises(config) THEN registered
    ELSE Append(registered, <<config.method, config.path>>)
RegisterEndpoint(registered, config) ==
    IF ~config.enabled THEN registered
    ELSE IF ~GetService(config.service) THEN registered
    ELSE IF RegistrationRaises(config) THEN registered
    ELSE Append(registered, <<config.method, config.path>>)

RECURSIVE RegisterAll(_, _)
\* the loop of load_and_register over config.endpoints
RegisterAll(registered, configs) ==
    IF configs = <<>> THEN registered
    ELSE RegisterAll(RegisterEndpoint(registered, Head(configs)), Tail(configs))

InitLoad ==
    /\ RLIdle
    /\ KeysIdle
    /\ PipeIdle
    /\ ConcIdle
    /\ SvcIdle
    /\ HttpIdle
    /\ StartIdle
    /\ document \in Documents
    /\ registered_endpoints = <<>>
    /\ load_state = "new"

\* DynamicRouter.load_and_register, called once by create_app
LoadAndRegister ==
    /\ load_state = "new"
    /\ LET config == LoadEndpointsConfig(document)
       IN  IF config.raised
           THEN /\ load_state' = "failed"
                /\ UNCHANGED registered_endpoints
           ELSE /\ load_state' = "ok"
                /\ registered_endpoints' = RegisterAll(registered_endpoints, config.endpoints)
    /\ UNCHANGED document
    /\ UNCHANGED <<rlVars, keyVars, pipeVars, concVars, startVars, svcVars, httpVars>>

NextLoad == LoadAndRegister

SpecLoad == InitLoad /\ [][NextLoad]_vars

\* two declarations of the document with enabled=true share (path, method)
EnabledDuplicate ==
    \E i \in 1..Len(document.endpoints), j \in 1..Len(document.endpoints) :
        /\ i < j
        /\ document.endpoints[i].enabled
        /\ document.endpoints[j].enabled
        /\ document.endpoints[i].path = document.endpoints[j].path
        /\ document.endpoints[i].method = document.endpoints[j].method

\* a declaration with enabled=false shares (path, method) with another one
DisabledDuplicate ==
    \E i \in 1..Len(document.endpoints), j \in 1..Len(document.endpoints) :
        /\ i # j
        /\ ~document.endpoints[i].enabled
        /\ document.endpoints[i].path = document.endpoints[j].path
        /\ document.endpoints[i].method = document.endpoints[j].method

(***************************************************************************)
(* C10: after the load, a document in which two enabled declarations share *)
(* (path, method) has failed to load and no dynamic route is registered;   *)
(* a document of well-formed declarations without such a pair has loaded,  *)
(* whatever its disabled declarations repeat, and every enabled            *)
(* declaration of a registered service is a route.                         *)
(***************************************************************************)
C10_DuplicateRoutesFailLoad ==
    load_state # "new" =>
        /\ EnabledDuplicate => (load_state = "failed" /\ registered_endpoints = <<>>)
        /\ (/\ ~EnabledDuplicate
            /\ \A i \in 1..Len(document.endpoints) : ValidatePath(document.endpoints[i].path))
              => /\ load_state = "ok"
                 /\ \A i \in 1..Len(document.endpoints) :
                       LET e == document.endpoints[i]
                       IN  (e.enabled /\ GetService(e.service) /\ ~RegistrationRaises(e)) =>
                              \E k \in 1..Len(registered_endpoints) :
                                  registered_endpoints[k] = <<e.method, e.path>>
                 /\ \A k \in 1..Len(registered_endpoints) :
                       \E i \in 1..Len(document.endpoints) :
                           /\ document.endpoints[i].enabled
                           /\ registered_endpoints[k] =
                                  <<document.endpoints[i].method, document.endpoints[i].path>>

\* a load that failed on an enabled pair, and beside it a disabled repeat
C10_Witness ==
    /\ load_state = "failed"
    /\ EnabledDuplicate
    /\ DisabledDuplicate
    /\ \A i \in 1..Len(document.endpoints) : ValidatePath(document.endpoints[i].path)
\* the declarations of the document that are enabled, name a service the
\* registry resolves and whose route registration does not raise, in order
Registrable(e) == e.enabled /\ GetService(e.service) /\ ~RegistrationRaises(e)
ExpectedRoutes ==
    LET kept == SelectSeq(document.endpoints, Registrable)
    IN  [k \in 1..Len(kept) |-> <<kept[k].method, kept[k].path>>]

(***************************************************************************)
(* C11: after load_and_register over a valid declaration list the          *)
(* registered dynamic routes are exactly the enabled declarations whose    *)
(* service the registry resolves, once each and in declaration order; a    *)
(* declaration with an unknown service, or whose registration raises, is   *)
(* skipped and the declarations after it are still registered.             *)
(***************************************************************************)
C11_FailureIsolation ==
    load_state = "ok" =>
        /\ registered_endpoints = ExpectedRoutes
        /\ \A i \in 1..Len(registered_endpoints), j \in 1..Len(registered_endpoints) :
              i # j => registered_endpoints[i] # registered_endpoints[j]

\* a route was registered after an unknown service and after a registration
\* that raised
C11_Witness ==
    /\ load_state = "ok"
    /\ \E i \in 1..Len(document.endpoints), j \in 1..Len(document.endpoints),
          k \in 1..Len(document.endpoints) :
          /\ i < k
          /\ j < k
          /\ document.endpoints[i].enabled
          /\ ~GetService(document.endpoints[i].service)
          /\ document.endpoints[j].enabled
          /\ GetService(document.endpoints[j].service)
          /\ RegistrationRaises(document.endpoints[j])
          /\ Registrable(document.endpoints[k])
          /\ registered_endpoints = << <<document.endpoints[k].method, document.endpoints[k].path>> >>
(***************************************************************************)
(* C12: once the router has served a request for which a service instance  *)
(* was created, cleanup() has run exactly once for it, after the parameter *)
(* extraction and after call(), whether they returned or raised.           *)
(***************************************************************************)
C12_GuaranteedCleanup ==
    (HappenedKind("route") /\ Happened("service", "create")) =>
        /\ CountKind("cleanup") = 1
        /\ \A j \in 1..Len(trace), k \in 1..Len(trace) :
              (trace[j].kind \in {"service", "extract", "call"} /\ trace[k].kind = "cleanup")
                  => j < k

\* call() raised an unclassified exception and the request left the router
C12_Witness ==
    /\ HappenedKind("route")
    /\ Happened("call", "crash")
    /\ result.kind = "exception"
    /\ Happened("cleanup", "service")
\* the cache entries, by the path they were stored under, that hold file f
CacheEntriesOf(cache, f) == {p \in DOMAIN cache : Resolve(p) = f}

(***************************************************************************)
(* C13: in every reachable state each key file has at most one active      *)
(* watcher and at most one cache entry, whatever spellings of its path     *)
(* (relative, absolute) the sources used.                                  *)
(***************************************************************************)
C13_OneWatcherPerFile ==
    \A f \in Files :
        /\ Cardinality(WatchersOf(file_watchers, f)) <= 1
        /\ Cardinality(CacheEntriesOf(keys_cache, f)) <= 1
\* the parse of what the file a path names held when the last operation ran
CurrentKeys(path) == ParseLines(kret.files[Resolve(path)].text)

\* the cache key load_keys uses for a file source
SourcePath(source) == PathStr(Strip(source))

ConcPath == SourcePath(SrcFileRel)

\* with self._lock: the lock can be taken
LockFreeAny(l) == TRUE
LockFree(l) == l = "free"

\* the body of the loop of _read_keys_from_file on one line
AddLine(keys, line) ==
    IF Strip(line) # <<>> /\ Head(Strip(line)) # "#" THEN keys \cup {Strip(line)} ELSE keys

InitConc ==
    /\ RLIdle
    /\ PipeIdle
    /\ LoadIdle
    /\ ConcIdle
    /\ SvcIdle
    /\ HttpIdle
    /\ StartIdle
    /\ fs \in [Files -> {NoFile}] \cup
              {[f \in Files |-> IF f = FileK
                                THEN [exists |-> TRUE, readable |-> TRUE, text |-> text]
                                ELSE NoFile] : text \in FileTexts}
    /\ keys_cache = <<>>
    /\ file_watchers = <<>>
    /\ events = {}
    /\ kret = [op |-> "none"]

\* the file is rewritten, removed or has its permissions changed from outside
ConcWrite ==
    /\ \E st \in FileStates : fs' = [fs EXCEPT ![FileK] = st]
    /\ UNCHANGED <<keys_cache, file_watchers, events, kret>>
    /\ UNCHANGED <<rlVars, pipeVars, loadVars, concVars, startVars, svcVars, httpVars>>

\* the observer thread dispatches a modification event: on_modified calls
\* reload_file, which goes for the lock
OnModifiedEnter ==
    /\ thr["reload"].pc = "idle"
    /\ ConcPath \in DOMAIN file_watchers
    /\ thr' = [thr EXCEPT !["reload"].pc = "wait"]
    /\ UNCHANGED <<keyVars, lock>>
    /\ UNCHANGED <<rlVars, pipeVars, loadVars, startVars, svcVars, httpVars>>

\* the observer thread is inside a callback
InCallback(threads) == threads["reload"].pc \notin {"idle", "done"}

\* shutdown under the lock: observer.stop() and observer.join() for every
\* watcher, which returns once the observer thread has left its callback,
\* then the table is cleared
JoinWatchers ==
    /\ thr["shutdown"].pc = "stop"
    /\ file_watchers # <<>> => ~InCallback(thr)
    /\ file_watchers' = StopWatchers(file_watchers).watchers
    /\ thr' = [thr EXCEPT !["shutdown"].pc = "release"]
    /\ UNCHANGED <<fs, keys_cache, events, kret, lock>>
    /\ UNCHANGED <<rlVars, pipeVars, loadVars, startVars, svcVars, httpVars>>

\* with self._lock: entered by thread t; load_keys comes here for a source
\* validated as a readable file, get_cached_keys for an existing file
Acquire(t) ==
    /\ thr[t].pc = IF t = "reload" THEN "wait" ELSE "idle"
    /\ LockFree(lock)
    /\ t = "load" => CanOpen(fs, ConcPath)
    /\ t = "get" => PathIsFile(fs, ConcPath)
    /\ lock' = t
    /\ thr' = [thr EXCEPT ![t] = [pc |-> IF t = "load" THEN "watch"
                                         ELSE IF t = "reload" THEN "check"
                                         ELSE IF t = "get" THEN "get" ELSE "stop",
                                  lines |-> <<>>, keys |-> {}, ret |-> NoRet]]
    /\ UNCHANGED keyVars
    /\ UNCHANGED <<rlVars, pipeVars, loadVars, startVars, svcVars, httpVars>>

\* _load_from_file: the watcher is started unless the path has one
StartWatching ==
    /\ thr["load"].pc = "watch"
    /\ file_watchers' = IF ConcPath \in DOMAIN file_watchers THEN file_watchers
                        ELSE DictSet(file_watchers, ConcPath, "started")
    /\ thr' = [thr EXCEPT !["load"].pc = "open"]
    /\ UNCHANGED <<fs, keys_cache, events, kret, lock>>
    /\ UNCHANGED <<rlVars, pipeVars, loadVars, startVars, svcVars, httpVars>>

\* reload_file: if cache_key in self._keys_cache
ReloadCheck ==
    /\ thr["reload"].pc = "check"
    /\ thr' = [thr EXCEPT !["reload"].pc =
                  IF ConcPath \in DOMAIN keys_cache THEN "open" ELSE "release"]
    /\ UNCHANGED <<keyVars, lock>>
    /\ UNCHANGED <<rlVars, pipeVars, loadVars, startVars, svcVars, httpVars>>

\* _read_keys_from_file: keys = set(); open(file_path), whose failure ends the read
OpenFile(t) ==
    /\ thr[t].pc = "open"
    /\ thr' = [thr EXCEPT ![t].pc = "read",
                          ![t].keys = {},
                          ![t].lines = IF CanOpen(fs, ConcPath)
                                       THEN fs[Resolve(ConcPath)].text ELSE <<>>]
    /\ UNCHANGED <<keyVars, lock>>
    /\ UNCHANGED <<rlVars, pipeVars, loadVars, startVars, svcVars, httpVars>>

\* _read_keys_from_file: one turn of the loop over the lines
ReadLine(t) ==
    /\ thr[t].pc = "read"
    /\ thr[t].lines # <<>>
    /\ thr' = [thr EXCEPT ![t].keys = AddLine(thr[t].keys, Head(thr[t].lines)),
                          ![t].lines = Tail(thr[t].lines)]
    /\ UNCHANGED <<keyVars, lock>>
    /\ UNCHANGED <<rlVars, pipeVars, loadVars, startVars, svcVars, httpVars>>

\* self._keys_cache[cache_key] = keys
Store(t) ==
    /\ thr[t].pc = "read"
    /\ thr[t].lines = <<>>
    /\ keys_cache' = DictSet(keys_cache, ConcPath, thr[t].keys)
    /\ thr' = [thr EXCEPT ![t].pc = "release",
                          ![t].ret = IF t = "load" THEN [has |-> TRUE, keys |-> thr[t].keys]
                                     ELSE NoRet]
    /\ UNCHANGED <<fs, file_watchers, events, kret, lock>>
    /\ UNCHANGED <<rlVars, pipeVars, loadVars, startVars, svcVars, httpVars>>

\* get_cached_keys: return self._keys_cache.get(cache_key)
GetCachedKeys ==
    /\ thr["get"].pc = "get"
    /\ thr' = [thr EXCEPT !["get"].pc = "release",
                          !["get"].ret = IF ConcPath \in DOMAIN keys_cache
                                         THEN [has |-> TRUE, keys |-> keys_cache[ConcPath]]
                                         ELSE NoRet]
    /\ UNCHANGED <<keyVars, lock>>
    /\ UNCHANGED <<rlVars, pipeVars, loadVars, startVars, svcVars, httpVars>>

\* the with block is left and the call returns
Release(t) ==
    /\ thr[t].pc = "release"
    /\ lock' = IF lock = t THEN "free" ELSE lock
    /\ thr' = [thr EXCEPT ![t].pc = "done"]
    /\ UNCHANGED keyVars
    /\ UNCHANGED <<rlVars, pipeVars, loadVars, startVars, svcVars, httpVars>>

\* the thread is ready for its next call
NextCall(t) ==
    /\ thr[t].pc = "done"
    /\ thr' = [thr EXCEPT ![t] = ThreadIdle]
    /\ UNCHANGED <<keyVars, lock>>
    /\ UNCHANGED <<rlVars, pipeVars, loadVars, startVars, svcVars, httpVars>>

NextConc ==
    \/ ConcWrite
    \/ OnModifiedEnter
    \/ \E t \in Threads : Acquire(t)
    \/ JoinWatchers
    \/ StartWatching
    \/ ReloadCheck
    \/ \E t \in {"load", "reload"} : OpenFile(t)
    \/ \E t \in {"load", "reload"} : ReadLine(t)
    \/ \E t \in {"load", "reload"} : Store(t)
    \/ GetCachedKeys
    \/ \E t \in Threads : Release(t)
    \/ \E t \in Threads : NextCall(t)

SpecConc == InitConc /\ [][NextConc]_vars

\* the complete parses of the versions the file can hold, and the set read
\* from a file that cannot be opened
CompleteParses == {ParseLines(text) : text \in FileTexts} \cup {{}}

\* the cache is changed by the thread that holds the lock
MutationUnderLock ==
    keys_cache' # keys_cache =>
        \E t \in Threads : lock = t /\ thr[t].pc = "read" /\ thr'[t].pc = "release"

EndpointSources == {<<>>, SrcInline, SrcTxt, SrcFileRel, SrcDir}
StartSources == {<<>>, SrcInline, SrcTxt, SrcFileRel, SrcBlank, SrcNoKeys}

\* validate_settings_api_keys / the loop body of validate_endpoints_api_keys:
\* a source that is not set is not validated
SourceValid(files, api_keys) ==
    IF api_keys = <<>> THEN TRUE ELSE ValidateApiKeySource(files, api_keys).valid

\* validate_all_api_keys
ValidateAllApiKeys(files, api_keys, endpoint_api_keys) ==
    SourceValid(files, api_keys) /\ SourceValid(files, endpoint_api_keys)

InitStart ==
    /\ RLIdle
    /\ PipeIdle
    /\ LoadIdle
    /\ ConcIdle
    /\ SvcIdle
    /\ HttpIdle
    /\ fs \in [Files -> AuthFileStates]
    /\ keys_cache = <<>>
    /\ file_watchers = <<>>
    /\ events = {}
    /\ kret = [op |-> "none"]
    /\ \E api_keys \in StartSources, endpoint_api_keys \in EndpointSources :
          startup = [state |-> "created", api_keys |-> api_keys,
                     endpoint_api_keys |-> endpoint_api_keys,
                     valid |-> TRUE, warned |-> FALSE, raised |-> FALSE]

\* lifespan, up to the yield: a failed validation is logged as a warning
LifespanStartup ==
    /\ startup.state = "created"
    /\ startup' = [startup EXCEPT
          !.state = "serving",
          !.valid = ValidateAllApiKeys(fs, startup.api_keys, startup.endpoint_api_keys),
          !.warned = ~ValidateAllApiKeys(fs, startup.api_keys, startup.endpoint_api_keys)]
    /\ UNCHANGED <<rlVars, keyVars, pipeVars, loadVars, concVars, svcVars, httpVars>>

\* lifespan after the yield: the key manager is shut down
LifespanShutdown ==
    /\ startup.state = "serving"
    /\ startup' = [startup EXCEPT !.state = "stopped"]
    /\ file_watchers' = StopWatchers(file_watchers).watchers
    /\ UNCHANGED <<fs, keys_cache, events, kret>>
    /\ UNCHANGED <<rlVars, pipeVars, loadVars, concVars, svcVars, httpVars>>

NextStart == LifespanStartup \/ LifespanShutdown

SpecStart == InitStart /\ [][NextStart]_vars

\* the source has a path-like shape and names nothing on disk
PathLikeMissing(files, source) ==
    /\ Strip(source) # <<>>
    /\ LooksLikePath(Strip(source))
    /\ ~PathExists(files, Strip(source))

(***************************************************************************)
(* C18: a process whose global credential source or whose endpoint         *)
(* credential source is path-like and missing raises a configuration error *)
(* during start and is never in the state in which it serves requests.     *)
(***************************************************************************)
C18_FailFast ==
    (\/ PathLikeMissing(fs, startup.api_keys)
     \/ PathLikeMissing(fs, startup.endpoint_api_keys)) =>
        /\ startup.state # "serving"
        /\ startup.state # "created" => startup.raised
(***************************************************************************)
(* The service registry (core/services/__init__.py): a module-level dict   *)
(* from lowercased name to service class, filled by register_service.      *)
(***************************************************************************)
MaxRegs == 3

\* service names as strings of letters, and the classes registered
ServiceNames == { <<"c">>, <<"C">>, <<"c", "H">>, <<"C", "h">>, <<"h">> }
ServiceClasses == {"Builtin", "Extension"}

\* str.lower() on the letters in use
LowerChar(ch) == IF ch = "C" THEN "c" ELSE IF ch = "H" THEN "h" ELSE ch
LowerName(name) == [i \in 1..Len(name) |-> LowerChar(name[i])]

\* a dict in insertion order: its keys, d.get(key) and d[key] = value
OrderedKeys(d) == [i \in 1..Len(d) |-> d[i][1]]
OrderedHas(d, key) == \E i \in 1..Len(d) : d[i][1] = key
OrderedGet(d, key) ==
    IF OrderedHas(d, key)
    THEN [found |-> TRUE, value |-> d[CHOOSE i \in 1..Len(d) : d[i][1] = key][2]]
    ELSE [found |-> FALSE, value |-> "None"]
OrderedPut(d, key, value) ==
    IF OrderedHas(d, key)
    THEN [i \in 1..Len(d) |-> IF d[i][1] = key THEN <<key, value>> ELSE d[i]]
    ELSE Append(d, <<key, value>>)

\* register_service: _service_registry[name.lower()] = service_class
RegistryPutRaw(registry, name, service_class) ==
    OrderedPut(registry, name, service_class)
RegistryPut(registry, name, service_class) ==
    OrderedPut(registry, LowerName(name), service_class)

InitReg ==
    /\ RLIdle
    /\ KeysIdle
    /\ PipeIdle
    /\ LoadIdle
    /\ ConcIdle
    /\ StartIdle
    /\ SvcIdle
    /\ HttpIdle

RegisterService ==
    \E name \in ServiceNames, service_class \in ServiceClasses :
        /\ Len(reg_log) < MaxRegs
        /\ service_registry' = RegistryPut(service_registry, name, service_class)
        /\ reg_log' = Append(reg_log, [name |-> name, service_class |-> service_class])
        /\ call' = [op |-> "register_service", name |-> name, found |-> FALSE,
                    value |-> "None", names |-> <<>>]
        /\ UNCHANGED <<rlVars, keyVars, pipeVars, loadVars, concVars, startVars, httpVars>>

\* get_service: _service_registry.get(name.lower())
GetServiceCall ==
    \E name \in ServiceNames :
        /\ call' = [op |-> "get_service", name |-> name,
                    found |-> OrderedGet(service_registry, LowerName(name)).found,
                    value |-> OrderedGet(service_registry, LowerName(name)).value,
                    names |-> <<>>]
        /\ UNCHANGED <<service_registry, reg_log>>
        /\ UNCHANGED <<rlVars, keyVars, pipeVars, loadVars, concVars, startVars, httpVars>>

\* list_services: list(_service_registry.keys())
ListServices ==
    /\ call' = [op |-> "list_services", name |-> <<>>, found |-> FALSE, value |-> "None",
                names |-> OrderedKeys(service_registry)]
    /\ UNCHANGED <<service_registry, reg_log>>
    /\ UNCHANGED <<rlVars, keyVars, pipeVars, loadVars, concVars, startVars, httpVars>>

NextReg == RegisterService \/ GetServiceCall \/ ListServices

SpecReg == InitReg /\ [][NextReg]_vars

\* the registrations made under a name that equals n ignoring case
RegistrationsOf(n) == {i \in 1..Len(reg_log) : LowerName(reg_log[i].name) = LowerName(n)}
LastRegistration(n) == CHOOSE i \in RegistrationsOf(n) : \A j \in RegistrationsOf(n) : j <= i

(***************************************************************************)
(* C21: get_service(n) gives the class of the latest register_service call *)
(* whose name equals n ignoring case, or nothing when there was none, and  *)
(* list_services holds each lowercased registered name exactly once.       *)
(***************************************************************************)
C21_RegistryCaseInsensitive ==
    /\ call.op = "get_service" =>
          IF RegistrationsOf(call.name) = {}
          THEN ~call.found
          ELSE call.found /\ call.value = reg_log[LastRegistration(call.name)].service_class
    /\ call.op = "list_services" =>
          /\ \A i \in 1..Len(call.names), j \in 1..Len(call.names) :
                call.names[i] = call.names[j] => i = j
          /\ {call.names[i] : i \in 1..Len(call.names)}
                = {LowerName(reg_log[i].name) : i \in 1..Len(reg_log)}

\* a name was registered twice under two spellings with two classes, and
\* get_service under the first spelling gave the class registered last
C21_Witness ==
    /\ call.op = "get_service"
    /\ call.found
    /\ Len(reg_log) >= 2
    /\ reg_log[1].name # reg_log[2].name
    /\ LowerName(reg_log[1].name) = LowerName(reg_log[2].name)
    /\ reg_log[1].service_class # reg_log[2].service_class
    /\ call.name = reg_log[1].name
    /\ call.value = reg_log[Len(reg_log)].service_class
    /\ LowerName(reg_log[Len(reg_log)].name) = LowerName(call.name)
(***************************************************************************)
(* Parameter extraction (DynamicRouter._extract_parameters): a function of *)
(* the request's query and path parameters and the endpoint's parameters.  *)
(***************************************************************************)
QueryKeys == {"q", "s"}
QueryValues == {"1", "2"}
PathKeys == {"s"}
PathValues == {"9"}
ParamNames == {"symbol", "q"}

\* dicts with keys among ks and values among vs
DictsOver(ks, vs) == UNION {[d -> vs] : d \in SUBSET ks}

\* an entry of the parameter map: "unset" where the declaration leaves the field out
ParamConfigs == [source : {"query", "path", "unset"}, key : QueryKeys \cup {"unset"}]

\* config.parameters: None, or a map from names to entries
NoParameters == [declared |-> FALSE, map |-> <<>>]
ParameterMaps ==
    {NoParameters} \cup {[declared |-> TRUE, map |-> pm] : pm \in DictsOver(ParamNames, ParamConfigs)}

\* d.get(key)
DictGet(d, key) == IF key \in DOMAIN d THEN d[key] ELSE "None"

\* param_config.get("source", "query") and param_config.get("key", param_name)
ParamSource(param_config) ==
    IF param_config.source = "unset" THEN "query" ELSE param_config.source
ParamKey(param_name, param_config) ==
    IF param_config.key = "unset" THEN param_name ELSE param_config.key

\* bool(config.parameters): None and the empty dict are both false
HasParameters(parameters) == parameters.declared /\ DOMAIN parameters.map # {}

\* DynamicRouter._extract_parameters
ExtractParameters(query_params, path_params, parameters) ==
    IF HasParameters(parameters)
    THEN [param_name \in DOMAIN parameters.map |->
             IF ParamSource(parameters.map[param_name]) = "query"
             THEN DictGet(query_params,
                          ParamKey(param_name, parameters.map[param_name]))
             ELSE DictGet(path_params,
                          ParamKey(param_name, parameters.map[param_name]))]
    ELSE query_params

InitExtract ==
    /\ RLIdle
    /\ KeysIdle
    /\ PipeIdle
    /\ LoadIdle
    /\ ConcIdle
    /\ StartIdle
    /\ SvcIdle
    /\ HttpIdle

\* _handle_endpoint extracts the parameters of a request
Extract ==
    \E query_params \in DictsOver(QueryKeys, QueryValues),
       path_params \in DictsOver(PathKeys, PathValues),
       parameters \in ParameterMaps :
        /\ call.op = "none"
        /\ call' = [op |-> "extract_parameters", query_params |-> query_params,
                    path_params |-> path_params, parameters |-> parameters,
                    bag |-> ExtractParameters(query_params, path_params, parameters)]
        /\ UNCHANGED <<service_registry, reg_log>>
        /\ UNCHANGED <<rlVars, keyVars, pipeVars, loadVars, concVars, startVars, httpVars>>

NextExtract == Extract

SpecExtract == InitExtract /\ [][NextExtract]_vars

\* the entry declares both where the parameter comes from and under which key
FullyDeclared(param_config) == param_config.source # "unset" /\ param_config.key # "unset"

(***************************************************************************)
(* C22: with a declared parameter map the bag has exactly the names of the *)
(* map, each holding the value found under its declared key in its         *)
(* declared source (query string or path parameters), and nothing else of  *)
(* the query string; without a map the bag is the query string.            *)
(***************************************************************************)
C22_ParameterExtraction ==
    call.op = "extract_parameters" =>
        IF call.parameters.declared
        THEN /\ DOMAIN call.bag = DOMAIN call.parameters.map
             /\ \A n \in DOMAIN call.parameters.map :
                   FullyDeclared(call.parameters.map[n]) =>
                       call.bag[n] =
                           DictGet(IF call.parameters.map[n].source = "query"
                                   THEN call.query_params ELSE call.path_params,
                                   call.parameters.map[n].key)
        ELSE call.bag = call.query_params
(***************************************************************************)
(* C29: a validate_key call against a file source that is in the cache,    *)
(* made when the file has been deleted or has become unreadable, does not  *)
(* raise and answers whether the key is in the cached key set.             *)
(***************************************************************************)
C29_RequestsReadCache ==
    (/\ kret.op = "validate_key"
     /\ SourcePath(kret.sources[1]) \in DOMAIN kret.cache_before
     /\ ~CanOpen(kret.files, kret.sources[1])) =>
        /\ ~kret.raised
        /\ kret.ok <=> kret.api_key \in kret.cache_before[SourcePath(kret.sources[1])]
(***************************************************************************)
(* C30: in no reachable state does shutdown, holding the manager lock,     *)
(* wait in join() for the observer thread while that thread waits in       *)
(* reload_file for the lock.                                               *)
(***************************************************************************)
C30_ShutdownTerminates ==
    ~(/\ lock = "shutdown"
      /\ thr["shutdown"].pc = "stop"
      /\ file_watchers # <<>>
      /\ thr["reload"].pc = "wait")

(***************************************************************************)
(* The metrics collector on its own (core/metrics.py): record_request and  *)
(* reset called in any order.                                              *)
(***************************************************************************)
MaxRecords == 3

MetricPaths == {"/pub"}
MetricMethods == {"GET", "POST"}
MetricStatuses == {200, 399, 400}
MetricDurations == {0, 1}

InitMetrics ==
    /\ RLIdle
    /\ KeysIdle
    /\ PipeIdle
    /\ LoadIdle
    /\ ConcIdle
    /\ StartIdle
    /\ SvcIdle
    /\ HttpIdle

\* time passes between calls
MetricsAdvance ==
    /\ \E t \in PipeTimes :
        /\ t > now
        /\ now' = t
    /\ UNCHANGED <<requests, last_cleanup, rl_log>>
    /\ UNCHANGED <<keyVars, pipeVars, loadVars, concVars, startVars, svcVars, httpVars>>

\* metrics_collector.record_request(path, method, status_code, duration)
RecordRequestCall ==
    \E path \in MetricPaths, method \in MetricMethods,
       status_code \in MetricStatuses, duration \in MetricDurations :
        /\ metrics.total_requests < MaxRecords
        /\ metrics' = RecordRequest(metrics, path, method, status_code, duration, now)
        /\ call' = [op |-> "record_request", endpoint_key |-> <<method, path>>,
                    status_code |-> status_code]
        /\ UNCHANGED <<settings, req, pc, depth, result, trace, rstate, locals, served>>
        /\ UNCHANGED <<service_registry, reg_log>>
        /\ UNCHANGED <<rlVars, keyVars, loadVars, concVars, startVars, httpVars>>

\* metrics_collector.reset()
ResetCall ==
    /\ call.op = "record_request"
    /\ metrics' = ResetMetrics(metrics, now)
    /\ call' = [op |-> "reset", endpoint_key |-> <<>>, status_code |-> 0]
    /\ UNCHANGED <<settings, req, pc, depth, result, trace, rstate, locals, served>>
    /\ UNCHANGED <<service_registry, reg_log>>
    /\ UNCHANGED <<rlVars, keyVars, loadVars, concVars, startVars, httpVars>>

NextMetrics == MetricsAdvance \/ RecordRequestCall \/ ResetCall

SpecMetrics == InitMetrics /\ [][NextMetrics]_vars

\* the sum of f[k] over the keys k of ks
RECURSIVE SumOver(_, _)
SumOver(f, ks) ==
    IF ks = {} THEN 0
    ELSE LET k == CHOOSE x \in ks : TRUE
         IN  f[k] + SumOver(f, ks \ {k})

EndpointKeys == DOMAIN metrics.endpoints
CountOf == [k \in EndpointKeys |-> metrics.endpoints[k].count]
ErrorCountOf == [k \in EndpointKeys |-> metrics.endpoints[k].error_count]

(***************************************************************************)
(* C35: after any sequence of record_request and reset calls the total of  *)
(* requests is the sum of the endpoints' counts, the total of errors is    *)
(* the sum of their error counts, and for each endpoint the histogram of   *)
(* status codes sums to its count while its error count is the number of   *)
(* recorded statuses >= 400, at most its count; right after reset there is *)
(* no endpoint and both totals are zero.                                   *)
(***************************************************************************)
C35_MetricsConsistency ==
    /\ metrics.total_requests = SumOver(CountOf, EndpointKeys)
    /\ metrics.total_errors = SumOver(ErrorCountOf, EndpointKeys)
    /\ \A k \in EndpointKeys :
          LET e == metrics.endpoints[k]
              codes == DOMAIN e.status_codes
          IN  /\ SumOver(e.status_codes, codes) = e.count
              /\ e.error_count = SumOver(e.status_codes, {c \in codes : c >= 400})
              /\ e.error_count <= e.count
    /\ call.op = "reset" =>
          /\ EndpointKeys = {}
          /\ metrics.total_requests = 0
          /\ metrics.total_errors = 0

\* counters rebuilt after a reset: two endpoints, one of them with an error
\* and a success
C35_Witness ==
    /\ call.op = "record_request"
    /\ metrics.start_time > 0
    /\ Cardinality(EndpointKeys) = 2
    /\ metrics.total_requests = 3
    /\ metrics.total_errors = 1
    /\ \E k \in EndpointKeys :
          /\ metrics.endpoints[k].count = 2
          /\ metrics.endpoints[k].error_count = 1
          /\ metrics.endpoints[k].status_codes[400] = 1


(***************************************************************************)
(* The transport handle (core/dependencies.py, core/services/base.py,      *)
(* DynamicRouter._handle_endpoint, the lifespan of app.py).  A handle is   *)
(* an httpx.AsyncClient, known by the order in which it was created.       *)
(***************************************************************************)
MaxServiceRuns == 3

\* httpx.AsyncClient(...): a new open handle
NewHandle(hs, creator) ==
    Append(hs, [creator |-> creator, open |-> TRUE, closed_by |-> "none"])

\* await client.aclose(): closing a closed handle changes nothing
AClose(hs, id, by) ==
    IF hs[id].open
    THEN [hs EXCEPT ![id] = [creator |-> hs[id].creator, open |-> FALSE, closed_by |-> by]]
    ELSE hs

\* HTTPClientDependency.__call__
DependencyCall(client, hs) ==
    IF client = 0
    THEN [client |-> Len(hs) + 1, handles |-> NewHandle(hs, "dependency")]
    ELSE [client |-> client, handles |-> hs]

\* HTTPClientDependency.close
DependencyClose(client, hs) ==
    IF client # 0
    THEN [client |-> 0, handles |-> AClose(hs, client, "dependency")]
    ELSE [client |-> client, handles |-> hs]

\* BaseService.__init__
BaseServiceInit(http_client) ==
    [http_client |-> http_client, owns_client |-> http_client = 0]

\* BaseService.get_http_client
GetHttpClient(service, hs) ==
    IF service.http_client = 0
    THEN [service |-> [service EXCEPT !.http_client = Len(hs) + 1],
          handles |-> NewHandle(hs, "service")]
    ELSE [service |-> service, handles |-> hs]

\* BaseService.cleanup
CleanupAlways(service, hs) ==
    IF service.http_client # 0
    THEN [service |-> [service EXCEPT !.http_client = 0],
          handles |-> AClose(hs, service.http_client, "service")]
    ELSE [service |-> service, handles |-> hs]
Cleanup(service, hs) ==
    IF service.owns_client /\ service.http_client # 0
    THEN [service |-> [service EXCEPT !.http_client = 0],
          handles |-> AClose(hs, service.http_client, "service")]
    ELSE [service |-> service, handles |-> hs]

\* a service instance from its creation to the end of its cleanup(): call()
\* is reached unless the parameter extraction raised, and asks for the handle
\* or does not
RunService(http_client, hs, svc, uses_client) ==
    LET created == BaseServiceInit(http_client)
        called == IF svc # "extract_error" /\ uses_client
                  THEN GetHttpClient(created, hs)
                  ELSE [service |-> created, handles |-> hs]
    IN  [used |-> called.service.http_client,
         after |-> Cleanup(called.service, called.handles)]

\* lifespan has closed the dependency
ShutDown == \E i \in 1..Len(svc_log) : svc_log[i].kind = "shutdown"

InitClient ==
    /\ RLIdle
    /\ KeysIdle
    /\ PipeIdle
    /\ LoadIdle
    /\ ConcIdle
    /\ StartIdle
    /\ SvcIdle
    /\ HttpIdle

\* a request to a dynamic endpoint: Depends(http_client_dependency), then
\* _handle_endpoint with the handle it gave
HandleEndpointCall ==
    \E svc \in ServiceOutcomes, uses_client \in BOOLEAN :
        /\ Len(svc_log) < MaxServiceRuns
        /\ ~ShutDown
        /\ LET d == DependencyCall(dep_client, handles)
               r == RunService(d.client, d.handles, svc, uses_client)
           IN  /\ dep_client' = d.client
               /\ handles' = r.after.handles
               /\ svc_log' = Append(svc_log,
                                    [kind |-> "endpoint", outcome |-> svc, given |-> d.client,
                                     used |-> r.used, service |-> r.after.service])
        /\ UNCHANGED <<rlVars, keyVars, pipeVars, loadVars, concVars, startVars, svcVars>>

\* a service created without a handle, called and cleaned up
StandaloneServiceCall ==
    \E svc \in ServiceOutcomes \ {"extract_error"}, uses_client \in BOOLEAN :
        /\ Len(svc_log) < MaxServiceRuns
        /\ ~ShutDown
        /\ LET r == RunService(0, handles, svc, uses_client)
           IN  /\ handles' = r.after.handles
               /\ svc_log' = Append(svc_log,
                                    [kind |-> "standalone", outcome |-> svc, given |-> 0,
                                     used |-> r.used, service |-> r.after.service])
        /\ UNCHANGED dep_client
        /\ UNCHANGED <<rlVars, keyVars, pipeVars, loadVars, concVars, startVars, svcVars>>

\* lifespan after yield: await http_client_dependency.close()
LifespanCloseClient ==
    /\ ~ShutDown
    /\ LET d == DependencyClose(dep_client, handles)
       IN  /\ dep_client' = d.client
           /\ handles' = d.handles
    /\ svc_log' = Append(svc_log,
                         [kind |-> "shutdown", outcome |-> "ok", given |-> 0, used |-> 0,
                          service |-> BaseServiceInit(0)])
    /\ UNCHANGED <<rlVars, keyVars, pipeVars, loadVars, concVars, startVars, svcVars>>

NextClient == HandleEndpointCall \/ StandaloneServiceCall \/ LifespanCloseClient

SpecClient == InitClient /\ [][NextClient]_vars

EndpointRuns == {i \in 1..Len(svc_log) : svc_log[i].kind = "endpoint"}

(***************************************************************************)
(* C38: every request to a dynamic endpoint, whether its service succeeded *)
(* or failed, was given one and the same handle, the one the dependency    *)
(* created; its service did not own it and still holds it after cleanup(); *)
(* until the dependency is closed at shutdown that handle is open; and a   *)
(* handle closed by a service's cleanup() was created by that service.     *)
(***************************************************************************)
C38_SharedTransportKept ==
    /\ \A i \in EndpointRuns, j \in EndpointRuns : svc_log[i].given = svc_log[j].given
    /\ \A i \in EndpointRuns :
          LET e == svc_log[i]
          IN  /\ e.given # 0
              /\ handles[e.given].creator = "dependency"
              /\ ~e.service.owns_client
              /\ e.service.http_client = e.given
              /\ e.used = e.given
              /\ ~ShutDown => (handles[e.given].open /\ dep_client = e.given)
    /\ \A h \in 1..Len(handles) :
          /\ handles[h].closed_by = "service" => handles[h].creator = "service"
          /\ (handles[h].creator = "dependency" /\ ~handles[h].open) =>
                 (ShutDown /\ handles[h].closed_by = "dependency")

\* a failed and a successful request shared the handle while a service
\* without a handle created and closed its own
C38_Witness ==
    /\ ~ShutDown
    /\ \E i \in EndpointRuns, j \in EndpointRuns :
          /\ i < j
          /\ svc_log[i].outcome = "crash"
          /\ svc_log[j].outcome = "ok"
          /\ handles[svc_log[j].given].open
    /\ \E h \in 1..Len(handles) :
          handles[h].creator = "service" /\ handles[h].closed_by = "service"

=============================================================================
